---- MODULE Spec2Model ----
(***************************************************************************)
(* Catalog indexing and installation engine of artifact-hub: the local     *)
(* store (catalogs, artifacts, installations with their foreign keys),     *)
(* catalog add / refresh / remove, the dependency resolver and the         *)
(* install / uninstall state machine.                                      *)
(***************************************************************************)
EXTENDS Integers, Sequences, FiniteSets, TLC

\* ------------------------------------------------------------------ bounds
\* Largest number of nested install() calls the model follows.
MaxDepth == 4

\* Largest number of operations the views start in one run.
MaxOps == 3

\* Largest number of resolve(depId) calls of one resolveDependencies the model follows.
MaxCalls == 8
MaxInflight == 2

\* ---------------------------------------------------------------- universe
\* The catalog configurations of the settings: {id, url}.
Configs ==
    { [id |-> "c1", url |-> "u1", enabled |-> TRUE],
      [id |-> "c2", url |-> "u2", enabled |-> TRUE],
      [id |-> "c2", url |-> "u2", enabled |-> FALSE] }

CatalogIds == {cfg.id : cfg \in Configs}

NewNames == {"z"}

NoError == "none"

\* One manifest entry (ArtifactSchema): dependencies is an ordered list of ids,
\* supportingFiles an ordered list of file paths.
Entry(id, type, version, deps, sf) ==
    [id |-> id, type |-> type, version |-> version, dependencies |-> deps, supportingFiles |-> sf]

\* Catalog: a document the schema accepts, with its catalog metadata and its
\* artifacts array.
Document(catalog, entries) == [catalog |-> catalog, artifacts |-> entries]

\* The valid documents a catalog URL can serve.
\* u1: a cycle a <-> b; or a newer a that needs b and then c, where c is not listed
\* and a and b have supporting files.
\* u2: c alone; or nothing; or c listed twice (the schema does not ask for unique ids).
Documents(url) ==
    IF url = "u1"
    THEN { Document("first", << Entry("a", "prompt", "1.0.0", <<"b">>, <<>>),
                                Entry("b", "prompt", "1.0.0", <<"a">>, <<>>) >>),
           Document("second", << Entry("a", "prompt", "1.1.0", <<"b", "c">>, <<"s1", "s2">>),
                                 Entry("b", "prompt", "1.0.0", <<>>, <<"s1">>) >>) }
    ELSE { Document("first", << Entry("c", "prompt", "1.0.0", <<>>, <<>>) >>),
           Document("empty", << >>),
           Document("twice", << Entry("c", "prompt", "1.1.0", <<>>, <<>>),
                                Entry("c", "prompt", "1.0.0", <<>>, <<>>) >>) }

\* The version strings of the model that match /^\d+\.\d+\.\d+$/.
WellFormed == {"1.0.0", "1.1.0"}

\* A document that breaks a schema rule in one artifact entry: the version of b.
InvalidDocuments(url) ==
    IF url = "u1"
    THEN { Document("invalid", << Entry("a", "prompt", "1.1.0", <<>>, <<>>),
                                  Entry("b", "prompt", "1.0", <<>>, <<>>) >>) }
    ELSE {}

\* The artifacts arrays of those documents.
RemoteManifests(url) == {d.artifacts : d \in Documents(url)}

\* ArtifactWithSource: a manifest entry plus the catalog it was indexed for.
WithSource(e, c) ==
    [id |-> e.id, catalogId |-> c, type |-> e.type, version |-> e.version,
     dependencies |-> e.dependencies, supportingFiles |-> e.supportingFiles]

Range(s) == {s[i] : i \in DOMAIN s}

\* Every artifact value a view can hold and pass to install (possibly stale).
KnownArtifacts ==
    UNION { UNION { {WithSource(e, cfg.id) : e \in Range(m)} : m \in RemoteManifests(cfg.url) } :
            cfg \in Configs }

\* ------------------------------------------------------------------- state
VARIABLES
    catalogs,       \* catalogs table: set of rows [id, url, metadata, status, error]
    artifacts,      \* artifacts table: set of ArtifactWithSource rows, key (id, catalogId)
    installations,  \* installations table: rows [artifactId, catalogId, version, installedPath]
    fs,             \* files of the workspace: path -> content
    dirs,           \* supporting-file directories that exist
    repositories,   \* the repositories setting: the list of catalog configs
    refresh,        \* the catalog refresh in flight and the refreshes it has finished
    stack,          \* the install() calls in flight, outermost first
    pre,            \* the store and files as they were when the last operation began
    last,           \* the last finished operation and what it returned or threw
    ops,            \* the number of operations started so far
    schema,         \* the schema of the store: its version row and the shape of its tables
    resolution,     \* the source URL resolver's last call: its arguments and its result
    inflight        \* the calls running side by side, each at one of its awaits

vars == <<catalogs, artifacts, installations, fs, dirs, repositories, refresh, stack, pre, last, ops,
          schema, resolution, inflight>>

\* ------------------------------------------------------------- the store
\* The three tables as one value, so that a transaction can be rolled back.
Db == [catalogs |-> catalogs, artifacts |-> artifacts, installations |-> installations]

\* artifacts.catalog_id REFERENCES catalogs(id) ON DELETE CASCADE
artifactsCascade(db) ==
    [db EXCEPT !.artifacts = {r \in @ : \E c \in db.catalogs : c.id = r.catalogId}]

\* The installations table without its foreign keys (schema version 1).
installationsCascadeV1(db) == db

\* installations.catalog_id REFERENCES catalogs(id) ON DELETE CASCADE and
\* installations(artifact_id, catalog_id) REFERENCES artifacts(id, catalog_id)
\* ON DELETE CASCADE (schema version 2)
installationsCascade(db) ==
    [db EXCEPT !.installations =
        {i \in @ : /\ \E c \in db.catalogs : c.id = i.catalogId
                   /\ \E r \in db.artifacts : r.id = i.artifactId /\ r.catalogId = i.catalogId}]

\* foreign_keys = ON: a delete takes the rows that reference the deleted ones.
cascade(db) == installationsCascade(artifactsCascade(db))

\* DELETE FROM catalogs WHERE id = ?
deleteCatalog(db, catalogId) ==
    cascade([db EXCEPT !.catalogs = {c \in @ : c.id # catalogId}])

\* DELETE FROM artifacts WHERE catalog_id = ?
deleteArtifacts(db, catalogId) ==
    cascade([db EXCEPT !.artifacts = {r \in @ : r.catalogId # catalogId}])

\* Indexing that skips an entry whose insert fails and goes on.
RECURSIVE indexArtifactsLenient(_, _, _)
indexArtifactsLenient(db, catalogId, entries) ==
    IF entries = <<>> THEN [ok |-> TRUE, db |-> db]
    ELSE LET e == Head(entries)
         IN IF \/ \E r \in db.artifacts : r.id = e.id /\ r.catalogId = catalogId
               \/ ~ \E c \in db.catalogs : c.id = catalogId
            THEN indexArtifactsLenient(db, catalogId, Tail(entries))
            ELSE indexArtifactsLenient([db EXCEPT !.artifacts = @ \cup {WithSource(e, catalogId)}],
                                       catalogId, Tail(entries))

\* INSERT INTO artifacts ..., one row per manifest entry, in manifest order.
\* A row whose (id, catalog_id) is taken, or whose catalog row is missing,
\* violates a constraint: the statement throws.
RECURSIVE indexArtifacts(_, _, _)
indexArtifacts(db, catalogId, entries) ==
    IF entries = <<>> THEN [ok |-> TRUE, db |-> db]
    ELSE LET e == Head(entries)
         IN IF \/ \E r \in db.artifacts : r.id = e.id /\ r.catalogId = catalogId
               \/ ~ \E c \in db.catalogs : c.id = catalogId
            THEN [ok |-> FALSE, db |-> db]
            ELSE indexArtifacts([db EXCEPT !.artifacts = @ \cup {WithSource(e, catalogId)}],
                                catalogId, Tail(entries))

\* DatabaseService.transaction: all of the writes, or none of them.
transaction(db, res) == IF res.ok THEN res.db ELSE db

Snapshot ==
    [catalogs |-> catalogs, artifacts |-> artifacts, installations |-> installations,
     fs |-> fs, dirs |-> dirs, repositories |-> repositories, schema |-> schema]

\* What an operation returned or threw. For install, `deps` is the resolver's list,
\* `ran` the dependencies install() was called for, `wrote` whether the call wrote
\* its main file and `depFailed` whether one of its dependency installs failed.
\* `attempted`: the supporting files the call tried, each with how it went.
\* `reported`: the caller told the user that the operation was carried out.
\* `doc`: the catalog metadata of the document fetchCatalog returned, if it did.
Trace(deps, ran, wrote, depFailed, answer) ==
    [deps |-> deps, ran |-> ran, wrote |-> wrote, depFailed |-> depFailed, answer |-> answer,
     attempted |-> <<>>]

NoTrace == Trace(<<>>, <<>>, FALSE, FALSE, "none")

Outcome(op, catalogId, artifactId, success, threw, error, path, trace) ==
    [op |-> op, catalogId |-> catalogId, artifactId |-> artifactId, success |-> success,
     threw |-> threw, error |-> error, path |-> path, trace |-> trace, reported |-> FALSE,
     doc |-> ""]

Result(op, catalogId, artifactId, success, threw, error, path) ==
    Outcome(op, catalogId, artifactId, success, threw, error, path, NoTrace)


Path(dir, base, ext) == [dir |-> dir, base |-> base, ext |-> ext]

\* The empty path: path '' of a result.
NoPath == Path("", "", "")

getCatalog(catalogId) == {c \in catalogs : c.id = catalogId}

\* What resolving the credential, fetching and validating a catalog document ends
\* in: a manifest, or a failure (resolveAuth rejects, the transport fails, or the
\* schema rejects the document).
FetchFailures == {"fetch"}

Failed(f, catalog) == [failed |-> TRUE, error |-> f, catalog |-> catalog, artifacts |-> <<>>]

Fetched(d) == [failed |-> FALSE, error |-> NoError, catalog |-> d.catalog, artifacts |-> d.artifacts]

\* ArtifactSchema: the rules an artifact entry must meet.
valid(e) == e.version \in WellFormed

\* A validator that drops the entries that break a rule and accepts the rest.
parseLenient(d) == Fetched(Document(d.catalog, SelectSeq(d.artifacts, valid)))

\* CatalogSchema.parse(data): the document, or a ZodError rethrown as
\* 'Invalid catalog format: ...' if any entry breaks a rule.
parse(d) ==
    IF \A e \in Range(d.artifacts) : valid(e) THEN Fetched(d) ELSE Failed("invalid", d.catalog)

fetchCatalog(url) ==
    {Failed(f, "") : f \in FetchFailures}
      \cup {parse(d) : d \in Documents(url) \cup InvalidDocuments(url)}

\* INSERT OR REPLACE INTO catalogs (id, url, ..., status) VALUES (?, ?, ..., 'healthy'):
\* rows holding the new id or the new url are deleted first (with their cascade).
replaceCatalog(db, config, metadata) ==
    LET kept == cascade([db EXCEPT !.catalogs = {c \in @ : c.id # config.id /\ c.url # config.url}])
    IN [kept EXCEPT !.catalogs =
            @ \cup {[id |-> config.id, url |-> config.url, metadata |-> metadata,
                     status |-> "healthy", error |-> NoError]}]

\* UPDATE catalogs SET status = ?, error = ? WHERE id = ?
setStatus(cats, catalogId, status, error) ==
    {IF c.id = catalogId THEN [c EXCEPT !.status = status, !.error = error] ELSE c : c \in cats}

\* UPDATE catalogs SET metadata = ? WHERE id = ?
setMetadata(cats, catalogId, metadata) ==
    {IF c.id = catalogId THEN [c EXCEPT !.metadata = metadata] ELSE c : c \in cats}

\* -------------------------------------------------------------- the schema
\* The value initializeSchema writes to the schema_version row.
SchemaVersion == 3

\* The shape of the store: the schema_version row of the metadata table (0 when
\* there is none); the installations table: "none", "plain" (without foreign
\* keys) or "fk"; the artifacts table: "none", "old" (without supporting_files)
\* or "full"; and whether a table installations_new exists.
Shape(version, inst, art, left) ==
    [version |-> version, installations |-> inst, artifacts |-> art, installationsNew |-> left]

\* The store as initializeSchema leaves a new database.
CurrentSchema == Shape(SchemaVersion, "fk", "full", FALSE)

\* initializeSchemaV1: CREATE TABLE IF NOT EXISTS for artifacts (with
\* supporting_files) and installations (without foreign keys).
initializeSchemaV1(s) ==
    [s EXCEPT !.installations = IF @ = "none" THEN "plain" ELSE @,
              !.artifacts = IF @ = "none" THEN "full" ELSE @]

\* The foreign keys of installations_new admit row i (foreign_keys = ON).
referenced(i) ==
    /\ \E c \in catalogs : c.id = i.catalogId
    /\ \E r \in artifacts : r.id = i.artifactId /\ r.catalogId = i.catalogId

Migrated(s, error) == [schema |-> s, error |-> error]

\* migrateToV2: nothing when the table is missing or its sql has FOREIGN KEY; else
\* one db.exec of CREATE TABLE installations_new, INSERT ... SELECT, DROP, RENAME,
\* which stops at the statement that fails and keeps what ran before it.
migrateToV2(s) ==
    IF s.installations # "plain" THEN Migrated(s, NoError)
    ELSE IF s.installationsNew THEN Migrated(s, "table installations_new already exists")
    ELSE IF \E i \in installations : ~referenced(i)
    THEN Migrated([s EXCEPT !.installationsNew = TRUE], "FOREIGN KEY constraint failed")
    ELSE Migrated([s EXCEPT !.installations = "fk"], NoError)

\* migrateToV3: ALTER TABLE artifacts ADD COLUMN supporting_files unless the table
\* is missing or has the column.
migrateToV3(s) == IF s.artifacts = "old" THEN [s EXCEPT !.artifacts = "full"] ELSE s

\* ------------------------------------------------------------- source URLs
\* Strings are the program's strings, character by character. Positions count
\* from 1, and 0 stands for JavaScript's -1.
Char(s, k) == SubSeq(s, k, k)

\* String.prototype.indexOf
indexOf(s, sub) ==
    LET at == {k \in 1..(Len(s) - Len(sub) + 1) : SubSeq(s, k, k + Len(sub) - 1) = sub}
    IN IF at = {} THEN 0 ELSE CHOOSE k \in at : \A j \in at : k <= j

\* String.prototype.lastIndexOf
lastIndexOf(s, sub) ==
    LET at == {k \in 1..(Len(s) - Len(sub) + 1) : SubSeq(s, k, k + Len(sub) - 1) = sub}
    IN IF at = {} THEN 0 ELSE CHOOSE k \in at : \A j \in at : k >= j

\* s begins with prefix.
startsWith(s, prefix) == Len(s) >= Len(prefix) /\ SubSeq(s, 1, Len(prefix)) = prefix

\* String.prototype.includes
includes(s, sub) == indexOf(s, sub) # 0

\* String.prototype.replace with a string pattern: the first occurrence only.
replace(s, sub, by) ==
    LET k == indexOf(s, sub)
    IN IF k = 0 THEN s ELSE SubSeq(s, 1, k - 1) \o by \o SubSeq(s, k + Len(sub), Len(s))

\* replace(/<sub>.*$/, ''): everything from the first occurrence of sub on.
\* (No URL here holds a line break, which .* would stop at.)
replaceFrom(s, sub) ==
    LET k == indexOf(s, sub) IN IF k = 0 THEN s ELSE SubSeq(s, 1, k - 1)

\* replace(/\/$/, ''): one trailing slash.
replaceTrailingSlash(s) ==
    IF Len(s) > 0 /\ Char(s, Len(s)) = "/" THEN SubSeq(s, 1, Len(s) - 1) ELSE s

UpperCase == "ABCDEFGHIJKLMNOPQRSTUVWXYZ"
LowerCase == "abcdefghijklmnopqrstuvwxyz"
Digits == "0123456789"

\* String.prototype.toLowerCase, on the ASCII letters.
RECURSIVE toLowerCase(_)
toLowerCase(s) ==
    IF s = "" THEN ""
    ELSE LET c == Head(s)
             k == indexOf(UpperCase, c)
         IN (IF k = 0 THEN c ELSE Char(LowerCase, k)) \o toLowerCase(Tail(s))

\* /\.[a-z0-9]+$/i.test(s): a dot followed by letters and digits up to the end.
hasExtension(s) ==
    \E k \in 1..(Len(s) - 1) :
        /\ Char(s, k) = "."
        /\ \A j \in (k + 1)..Len(s) : includes(UpperCase \o LowerCase \o Digits, Char(s, j))

\* new URL(s) for the http and https URLs drawn here (no dot segments, no
\* characters that the parser would encode): it throws without a scheme and a
\* host; pathname runs from the first slash after the host to the query or the
\* fragment, and is "/" when the URL has none.
URL(s) ==
    LET scheme == IF startsWith(s, "https://") THEN 8
                  ELSE IF startsWith(s, "http://") THEN 7 ELSE 0
        rest == SubSeq(s, scheme + 1, Len(s))
        stops == {k \in 1..Len(rest) : Char(rest, k) \in {"/", "?", "#"}}
        hostEnd == IF stops = {} THEN Len(rest) + 1 ELSE CHOOSE k \in stops : \A j \in stops : k <= j
        after == SubSeq(rest, hostEnd, Len(rest))
        cuts == {k \in 1..Len(after) : Char(after, k) \in {"?", "#"}}
        pathEnd == IF cuts = {} THEN Len(after) + 1 ELSE CHOOSE k \in cuts : \A j \in cuts : k <= j
        path == SubSeq(after, 1, pathEnd - 1)
    IN IF scheme = 0 \/ hostEnd = 1 THEN [valid |-> FALSE, pathname |-> ""]
       ELSE [valid |-> TRUE, pathname |-> IF path = "" THEN "/" ELSE path]

\* branch || 'main'; an absent branch is the empty tuple.
branchName(branch) == IF branch = <<>> \/ branch[1] = "" THEN "main" ELSE branch[1]

\* resolveGitLabUrl keeps the whole declared URL (a variant: no suffix is removed).
uncleanedGitLabUrl(repoUrl) == repoUrl

\* resolveGitLabUrl: cleanUrl
cleanGitLabUrl(repoUrl) == replaceTrailingSlash(replaceFrom(repoUrl, "/-/raw/"))

resolveGitLabUrl(repoUrl, branch, artifactPath) ==
    cleanGitLabUrl(repoUrl) \o "/-/raw/" \o branchName(branch) \o "/" \o artifactPath

\* replace(/\/(raw|blob)\/.*$/, ''): from the leftmost of the two segments on.
replaceRawOrBlob(s) ==
    LET raw == indexOf(s, "/raw/")
        blob == indexOf(s, "/blob/")
        k == IF raw = 0 THEN blob ELSE IF blob = 0 \/ raw < blob THEN raw ELSE blob
    IN IF k = 0 THEN s ELSE SubSeq(s, 1, k - 1)

resolveGitHubUrl(repoUrl, branch, artifactPath) ==
    LET hosted == IF includes(repoUrl, "github.com") /\ ~includes(repoUrl, "raw.githubusercontent.com")
                  THEN replace(repoUrl, "github.com", "raw.githubusercontent.com")
                  ELSE repoUrl
        cleanUrl == replaceTrailingSlash(replaceRawOrBlob(hosted))
    IN cleanUrl \o "/" \o branchName(branch) \o "/" \o artifactPath

\* The extension test applied to the whole URL (a variant: the host's top-level
\* domain counts as an extension).
isFileByName(cleanUrl) == hasExtension(cleanUrl)

\* resolveGenericUrl: the condition under which the URL is taken to name a file.
isFile(cleanUrl) ==
    LET u == URL(cleanUrl)
    IN u.valid /\ u.pathname # "" /\ u.pathname # "/" /\ hasExtension(u.pathname)

resolveGenericUrl(baseUrl, artifactPath) ==
    LET cleanUrl == replaceTrailingSlash(baseUrl)
    IN IF isFile(cleanUrl)
       THEN SubSeq(cleanUrl, 1, lastIndexOf(cleanUrl, "/") - 1) \o "/" \o artifactPath
       ELSE cleanUrl \o "/" \o artifactPath

\* catalog.repository
Repository(type, url, branch) == [type |-> type, url |-> url, branch |-> branch]

resolveArtifactUrl(repo, artifactPath) ==
    LET type == toLowerCase(repo.type)
    IN IF type = "gitlab" THEN resolveGitLabUrl(repo.url, repo.branch, artifactPath)
       ELSE IF type = "github" THEN resolveGitHubUrl(repo.url, repo.branch, artifactPath)
       ELSE resolveGenericUrl(repo.url, artifactPath)

\* How a declared URL was put together: origin, then kept, then dropped.
Declared(family, origin, kept, dropped) ==
    [family |-> family, origin |-> origin, kept |-> kept, dropped |-> dropped]

\* The source URL resolver has not been called.
NoUrl ==
    [repo |-> Repository("", "", <<>>), path |-> "", resolved |-> "",
     declared |-> Declared("", "", "", "")]

\* ------------------------------------------------------ catalog operations
Idle == stack = <<>> /\ refresh.queue = <<>>

\* A view starts an operation: none is in flight.
Start ==
    /\ Idle
    /\ ops < MaxOps
    /\ ops' = ops + 1

\* The 'addCatalog' message of the repositories view (and the addRepository
\* command): catalogService.addCatalog(config), then the config is appended to the
\* repositories setting and the user is told.
addCatalog(config, doc) ==
    /\ Start
    /\ pre' = Snapshot
    /\ UNCHANGED <<fs, dirs, stack, refresh>>
    /\ IF doc.failed
       THEN /\ last' = [Result("addCatalog", config.id, "", FALSE, TRUE, doc.error, NoPath)
                          EXCEPT !.doc = doc.catalog]
            /\ UNCHANGED <<catalogs, artifacts, installations, repositories>>
       ELSE LET db1 == replaceCatalog(Db, config, doc.catalog)
                res == indexArtifacts(db1, config.id, doc.artifacts)
                db2 == transaction(Db, res)
            IN /\ catalogs' = db2.catalogs
               /\ artifacts' = db2.artifacts
               /\ installations' = db2.installations
               /\ repositories' = IF res.ok THEN Append(repositories, config) ELSE repositories
               /\ last' = [Result("addCatalog", config.id, "", res.ok, ~res.ok,
                                  IF res.ok THEN NoError ELSE "constraint", NoPath)
                             EXCEPT !.reported = res.ok, !.doc = doc.catalog]
    /\ UNCHANGED <<schema, resolution, inflight>>

\* The transaction of a refresh: new metadata and status, the old artifact rows
\* deleted, the manifest's rows inserted.
reindex(db, catalogId, doc) ==
    LET db1 == [db EXCEPT !.catalogs = setMetadata(setStatus(@, catalogId, "healthy", NoError),
                                                   catalogId, doc.catalog)]
        db2 == deleteArtifacts(db1, catalogId)
    IN indexArtifacts(db2, catalogId, doc.artifacts)

\* What one refreshCatalog call did: the store after it, and whether it threw.
Refreshed(db, ok, error) == [db |-> db, ok |-> ok, error |-> error]

\* A refresh whose failure is not recorded on the catalog.
refreshFailedUnrecorded(db, catalogId, error) == Refreshed(db, FALSE, error)

\* catch (err) { UPDATE catalogs SET status = 'error', error = ? WHERE id = ?; throw err }
refreshFailed(db, catalogId, error) ==
    Refreshed([db EXCEPT !.catalogs = setStatus(@, catalogId, "error", error)], FALSE, error)

\* refreshCatalog from the answer of resolveAuth and fetchCatalog on: the
\* transaction, or the catch block.
refreshWith(db, config, doc) ==
    IF doc.failed THEN refreshFailed(db, config.id, doc.error)
    ELSE LET res == reindex(db, config.id, doc)
         IN IF res.ok THEN Refreshed(transaction(db, res), TRUE, NoError)
            ELSE refreshFailed(transaction(db, res), config.id, "constraint")

\* The refresh in flight: `queue` holds the configs still to refresh, the one
\* being fetched first; `all` tells a sweep from a single refresh; `done` lists
\* the refreshes that have returned, in order.
Refreshing(queue, all, done) == [queue |-> queue, all |-> all, done |-> done]

NoRefresh == Refreshing(<<>>, FALSE, <<>>)

\* configs.find(c => c.id === message.catalogId)
findConfig(configs, catalogId) ==
    LET found == SelectSeq(configs, LAMBDA c : c.id = catalogId)
    IN IF found = <<>> THEN <<>> ELSE <<Head(found)>>

\* UPDATE catalogs SET status = 'updating' WHERE id = ?, for the first config of
\* the queue: a refreshCatalog call up to its first await. The error column is
\* left as it was.
begin(cats, queue) ==
    IF queue = <<>> THEN cats
    ELSE {IF c.id = Head(queue).id THEN [c EXCEPT !.status = "updating"] ELSE c : c \in cats}

\* The 'refreshCatalog' message of the repositories view: the config is looked up
\* in the repositories setting; refreshCatalog runs up to the fetch.
refreshCatalog(catalogId) ==
    /\ Start
    /\ findConfig(repositories, catalogId) # <<>>
    /\ pre' = Snapshot
    /\ refresh' = Refreshing(findConfig(repositories, catalogId), FALSE, <<>>)
    /\ catalogs' = begin(catalogs, refresh'.queue)
    /\ last' = Result("refreshCatalog", catalogId, "", FALSE, FALSE, "pending", NoPath)
    /\ UNCHANGED <<artifacts, installations, fs, dirs, repositories, stack>>
    /\ UNCHANGED <<schema, resolution, inflight>>

\* A sweep that refreshes every config.
everyConfig(configs) == configs

\* const enabledConfigs = configs.filter(c => c.enabled)
enabledConfigs(configs) == SelectSeq(configs, LAMBDA c : c.enabled)

\* A sweep that stops at the first failure.
untilFailure(queue, ok) == IF ok THEN Tail(queue) ELSE <<>>

\* for (const config of enabledConfigs) { try { await refreshCatalog } catch { log } }:
\* the configs left once the refresh of the first has returned or thrown.
remaining(queue, ok) == Tail(queue)

\* refreshAll(config.getRepositories()): the refreshCatalogs command, the
\* 'refreshAllCatalogs' message and the auto-refresh timer.
refreshAll ==
    /\ Start
    /\ pre' = Snapshot
    /\ refresh' = Refreshing(enabledConfigs(repositories), TRUE, <<>>)
    /\ catalogs' = begin(catalogs, refresh'.queue)
    /\ last' = IF refresh'.queue = <<>>
               THEN Result("refreshAll", "", "", TRUE, FALSE, NoError, NoPath)
               ELSE Result("refreshAll", "", "", FALSE, FALSE, "pending", NoPath)
    /\ UNCHANGED <<artifacts, installations, fs, dirs, repositories, stack>>
    /\ UNCHANGED <<schema, resolution, inflight>>

\* The refresh in flight goes on after its fetch: the document is indexed or the
\* failure recorded; a single refresh returns or throws, a sweep goes to its next
\* config.
refreshCatalogFetched(doc) ==
    /\ refresh.queue # <<>>
    /\ LET config == Head(refresh.queue)
           r == refreshWith(Db, config, doc)
           rest == IF refresh.all THEN remaining(refresh.queue, r.ok) ELSE <<>>
       IN /\ refresh' = Refreshing(rest, refresh.all,
                                   Append(refresh.done, [id |-> config.id, ok |-> r.ok]))
          /\ catalogs' = begin(r.db.catalogs, rest)
          /\ artifacts' = r.db.artifacts
          /\ installations' = r.db.installations
          /\ last' = IF refresh.all
                     THEN IF rest = <<>>
                          THEN [Result("refreshAll", "", "", TRUE, FALSE, NoError, NoPath)
                                  EXCEPT !.reported = TRUE]
                          ELSE last
                     ELSE [Result("refreshCatalog", config.id, "", r.ok, ~r.ok, r.error, NoPath)
                             EXCEPT !.reported = r.ok, !.doc = doc.catalog]
    /\ UNCHANGED <<fs, dirs, repositories, stack, pre, ops>>
    /\ UNCHANGED <<schema, resolution, inflight>>

\* vscode.workspace.fs.delete of each path in ps, except those whose delete fails.
deleteFiles(files, ps) ==
    IF DOMAIN files \subseteq ps THEN <<>> ELSE [p \in DOMAIN files \ ps |-> files[p]]

\* configs.filter(c => c.id !== catalogId)
withoutCatalog(configs, catalogId) == SelectSeq(configs, LAMBDA c : c.id # catalogId)

\* removeCatalog returns without throwing when the confirmation is not 'Remove'
\* (if (confirm !== 'Remove') return), so its caller goes on as after a removal:
\* the settings entry is filtered out and the removal is reported.
declined(catalogId) ==
    [repositories |-> withoutCatalog(repositories, catalogId),
     result |-> [Result("removeCatalog", catalogId, "", FALSE, FALSE, "declined", NoPath)
                   EXCEPT !.reported = TRUE]]

\* The 'removeCatalog' message of the repositories view (and the removeRepository
\* command): catalogService.removeCatalog(catalogId), then the settings entry is
\* filtered out and the user is told.
removeCatalog(catalogId) ==
    /\ Start
    /\ pre' = Snapshot
    /\ UNCHANGED <<dirs, stack, refresh>>
    /\ IF getCatalog(catalogId) = {}
       THEN /\ last' = Result("removeCatalog", catalogId, "", FALSE, TRUE, "not found", NoPath)
            /\ UNCHANGED <<catalogs, artifacts, installations, fs, repositories>>
       ELSE LET paths == {i.installedPath : i \in {j \in installations : j.catalogId = catalogId}}
                db2 == deleteCatalog(Db, catalogId)
                d == declined(catalogId)
            IN \/ /\ paths # {}
                  /\ last' = d.result
                  /\ repositories' = d.repositories
                  /\ UNCHANGED <<catalogs, artifacts, installations, fs>>
               \/ \E undeleted \in SUBSET paths :
                  /\ fs' = deleteFiles(fs, paths \ undeleted)
                  /\ catalogs' = db2.catalogs
                  /\ artifacts' = db2.artifacts
                  /\ installations' = db2.installations
                  /\ repositories' = withoutCatalog(repositories, catalogId)
                  /\ last' = [Result("removeCatalog", catalogId, "", TRUE, FALSE, NoError, NoPath)
                                EXCEPT !.reported = TRUE]
    /\ UNCHANGED <<schema, resolution, inflight>>

\* ------------------------------------------------------------ installation
Key(artifact) == <<artifact.catalogId, artifact.id>>

\* SELECT ... FROM installations WHERE catalog_id = ? AND artifact_id = ?
getInstallationIn(inst, catalogId, artifactId) ==
    {i \in inst : i.catalogId = catalogId /\ i.artifactId = artifactId}

getInstallation(catalogId, artifactId) == getInstallationIn(installations, catalogId, artifactId)

\* SearchService.getArtifact: the artifact row with this key, if any.
getArtifact(catalogId, artifactId) ==
    {r \in artifacts : r.catalogId = catalogId /\ r.id = artifactId}

\* The keywords of the manifest entries: only the entry k carries any.
keywords(artifact) == IF artifact.id = "k" THEN {"x", "y"} ELSE {}

\* SearchService.search({query, pageSize: 1}): the top hit of a free-text search
\* over all catalogs; an artifact matches the query that is its id or one of its
\* keywords.
search(query) ==
    LET hits == {r \in artifacts : r.id = query \/ query \in keywords(r)}
    IN IF hits = {} THEN {}
       ELSE {CHOOSE r \in hits : \A o \in hits : r.catalogId = o.catalogId \/ r.catalogId = "c1"}

\* ARTIFACT_EXTENSIONS
Ext(type) == IF type = "chatmode" THEN ".chatmode.md" ELSE ".md"

\* path.extname: from the last dot on.
extname(ext) == ".md"


\* <workspace>/<installRoot>/<ARTIFACT_PATHS[type]>/<id><ARTIFACT_EXTENSIONS[type]>
getInstallPath(artifact) == Path(artifact.type, artifact.id, Ext(artifact.type))

\* path.join(path.dirname(targetPath), newName + path.extname(targetPath))
renamedPath(targetPath, newName) == Path(targetPath.dir, newName, extname(targetPath.ext))

\* fs.stat succeeds
checkConflict(targetPath) == targetPath \in DOMAIN fs

\* The resolver's working state: the list built so far, the visited ids, the id
\* of a dependency that was found nowhere (the thrown error), the number of
\* resolve calls made, and whether the walk was cut off at MaxCalls.
ResolveState(deps, visited, missing) ==
    [deps |-> deps, visited |-> visited, missing |-> missing, calls |-> 0, unfinished |-> FALSE]

\* A resolver without its visited set.
seenNever(st, depId) == FALSE

\* if (visited.has(depId)) { return; }
seen(st, depId) == depId \in st.visited

\* A resolver that walks into the dependencies of installed artifacts too.
installedNever(dep) == FALSE

\* const installed = this.getInstallation(dep.catalogId, dep.id); if (installed) return
installed(dep) == getInstallation(dep.catalogId, dep.id) # {}

\* A resolver that appends the dependency before it walks its dependencies.
listedFirst(st, dep) == TRUE

\* deps.push(dep) comes after the loop over dep.dependencies.
preOrder(st, dep) == FALSE

\* A resolver that passes over a dependency it finds nowhere.
notFoundSkipped(st, depId) == st

\* if (!dep) { throw new Error(`Dependency not found: ${depId}`); }
notFound(st, depId) == [st EXCEPT !.missing = depId]

\* The inner resolve(depId) of resolveDependencies, and the loop over a list of
\* ids. Lookups use the catalog of the artifact being installed.
RECURSIVE resolve(_, _, _), resolveEach(_, _, _)
resolve(artifact, depId, st) ==
    IF st.missing # NoError \/ st.unfinished THEN st
    ELSE IF st.calls >= MaxCalls THEN [st EXCEPT !.unfinished = TRUE]
    ELSE IF seen(st, depId) THEN [st EXCEPT !.calls = @ + 1]
    ELSE LET st1 == [st EXCEPT !.visited = @ \cup {depId}, !.calls = @ + 1]
             own == getArtifact(artifact.catalogId, depId)
             found == IF own # {} THEN own ELSE search(depId)
         IN IF found = {} THEN notFound(st1, depId)
            ELSE LET dep == CHOOSE r \in found : TRUE
                 IN IF installed(dep) THEN st1
                    ELSE IF preOrder(st1, dep)
                    THEN resolveEach(artifact, dep.dependencies, [st1 EXCEPT !.deps = Append(@, dep)])
                    ELSE LET st2 == resolveEach(artifact, dep.dependencies, st1)
                         IN IF st2.missing # NoError \/ st2.unfinished THEN st2
                            ELSE [st2 EXCEPT !.deps = Append(@, dep)]

resolveEach(artifact, ids, st) ==
    IF ids = <<>> THEN st
    ELSE resolveEach(artifact, Tail(ids), resolve(artifact, Head(ids), st))

resolveDependencies(artifact) ==
    resolveEach(artifact, artifact.dependencies, ResolveState(<<>>, {}, NoError))

\* throw new Error(`Dependency not found: ${depId}`)
dependencyNotFound(depId) == "Dependency not found: " \o depId

\* ---- performInstall ----
UserContent == [catalogId |-> "user", id |-> "user", version |-> "0"]

\* What http.fetchText(artifact.sourceUrl) returns.
Content(artifact) == [catalogId |-> artifact.catalogId, id |-> artifact.id, version |-> artifact.version]

writeFile(files, targetPath, content) ==
    [p \in DOMAIN files \cup {targetPath} |-> IF p = targetPath THEN content ELSE files[p]]

Dir(kind, parent, id) == [kind |-> kind, parent |-> parent, id |-> id]

\* <workspace>/.github/.<artifactId>
supportingDir(artifactId) == Dir("current", "", artifactId)

\* <workspace>/.<artifactId>
legacyHiddenDir(artifactId) == Dir("legacyHidden", "", artifactId)

\* <dirname(installedPath)>/<artifactId>
legacyDir(installedPath, artifactId) == Dir("legacy", installedPath.dir, artifactId)

\* A plain INSERT into an installations table without UNIQUE(artifact_id, catalog_id).
recordAppended(inst, artifact, targetPath) ==
    inst \cup {[artifactId |-> artifact.id, catalogId |-> artifact.catalogId,
                version |-> artifact.version, installedPath |-> targetPath]}

\* INSERT OR REPLACE INTO installations (artifact_id, catalog_id, version, installed_path)
recordInstallation(inst, artifact, targetPath) ==
    {i \in inst : ~(i.catalogId = artifact.catalogId /\ i.artifactId = artifact.id)}
      \cup {[artifactId |-> artifact.id, catalogId |-> artifact.catalogId,
             version |-> artifact.version, installedPath |-> targetPath]}

\* The foreign keys of the installations table admit the new row.
installationAdmitted(artifact) ==
    /\ \E c \in catalogs : c.id = artifact.catalogId
    /\ \E r \in artifacts : r.id = artifact.id /\ r.catalogId = artifact.catalogId

\* The points at which performInstall can fail before the main file is written.
MainFailures == {"auth", "download", "mkdir", "write"}

\* How one supporting file can go: written, its download failed, or its write
\* failed after its directory was created.
FileOutcomes == {"ok", "download", "write"}

\* The environment of installSupportingFiles for n files: whether a workspace
\* folder is open, and how each file goes.
SupportingOutcomes(n) == [workspace : BOOLEAN, files : [1..n -> FileOutcomes]]

\* performInstall(artifact, targetPath) under the environment's choices `main`
\* ("ok" or a failure) and `sup`: the files, directories and installations after
\* it, and the result it returns (threw: the error left performInstall uncaught).
Performed(st, success, threw, error, path) ==
    [fs |-> st.fs, dirs |-> st.dirs, installations |-> st.installations, wrote |-> st.wrote,
     attempted |-> st.attempted,
     success |-> success, threw |-> threw, error |-> error, path |-> path]

\* A performInstall that records the installation before it downloads: a failure
\* leaves the record behind.
failedRecorded(st, artifact, error, targetPath) ==
    Performed([st EXCEPT !.installations = recordInstallation(@, artifact, targetPath)],
              FALSE, FALSE, error, targetPath)

\* A failure that takes the installation record of the artifact with it.
failedUnrecorded(st, artifact, error, targetPath) ==
    Performed([st EXCEPT !.installations = @ \ getInstallationIn(@, artifact.catalogId, artifact.id)],
              FALSE, FALSE, error, targetPath)

\* catch (err) { return { success: false, artifact, path: targetPath, error } }:
\* what was done before the failure stays done, nothing is recorded.
installFailed(st, artifact, error, targetPath) == Performed(st, FALSE, FALSE, error, targetPath)

\* A loop over the supporting files that ends at the first file that fails.
untilWarning(files, outcome) == IF outcome = "ok" THEN Tail(files) ELSE <<>>

\* for (const filePath of artifact.supportingFiles) { try {...} catch { console.warn } }:
\* the files the loop still has to go through after one file went as `outcome`.
afterFile(files, outcome) == Tail(files)

\* The loop of installSupportingFiles over `files`, the k-th file of the artifact
\* first: fetchText, createDirectory, writeFile, each failure caught and logged.
RECURSIVE installSupportingFiles(_, _, _, _, _)
installSupportingFiles(st, artifact, files, k, outcomes) ==
    IF files = <<>> THEN st
    ELSE LET outcome == outcomes[k]
             tried == [st EXCEPT !.attempted = Append(@, [file |-> Head(files), outcome |-> outcome])]
             done == IF outcome = "download" THEN tried
                     ELSE [tried EXCEPT !.dirs = @ \cup {supportingDir(artifact.id)}]
         IN installSupportingFiles(done, artifact, afterFile(files, outcome), k + 1, outcomes)

performInstall(artifact, targetPath, main, sup) ==
    LET unchanged == [fs |-> fs, dirs |-> dirs, installations |-> installations, wrote |-> FALSE,
                      attempted |-> <<>>]
        written == [unchanged EXCEPT !.fs = writeFile(fs, targetPath, Content(artifact)),
                                     !.wrote = TRUE]
        supported == installSupportingFiles(written, artifact, artifact.supportingFiles, 1, sup.files)
    IN IF main = "auth" THEN Performed(unchanged, FALSE, TRUE, "auth", NoPath)
       ELSE IF main # "ok" THEN installFailed(unchanged, artifact, main, targetPath)
       ELSE IF artifact.supportingFiles # <<>> /\ ~sup.workspace
       THEN installFailed(written, artifact, "No workspace folder open", targetPath)
       ELSE IF ~installationAdmitted(artifact)
       THEN installFailed(supported, artifact, "constraint", targetPath)
       ELSE Performed([supported EXCEPT !.installations = recordInstallation(@, artifact, targetPath)],
                      TRUE, FALSE, NoError, targetPath)

\* ---- install ----
Frame(artifact, pc, deps, i, target) ==
    [artifact |-> artifact, pc |-> pc, deps |-> deps, i |-> i, target |-> target,
     ran |-> <<>>, depFailed |-> FALSE, answer |-> "none"]

Top == stack[Len(stack)]

\* The answers to the conflict prompt: dismissed (or an empty new name), Keep
\* Existing, Replace, or Rename with a new base name.
Resolutions ==
    {[action |-> "cancel", newName |-> ""], [action |-> "keep", newName |-> ""],
     [action |-> "replace", newName |-> ""]}
      \cup {[action |-> "rename", newName |-> n] : n \in NewNames}

InstallResult(f, success, threw, error, path, wrote) ==
    Outcome("install", f.artifact.catalogId, f.artifact.id, success, threw, error, path,
            Trace(f.deps, f.ran, wrote, f.depFailed, f.answer))

\* install without its try/catch: the error leaves the call.
uncaught(f, error, wrote) == InstallResult(f, FALSE, TRUE, error, NoPath, wrote)

\* catch (err) { return { success: false, artifact, path: '', error: err.message } }
caught(f, error, wrote) == InstallResult(f, FALSE, FALSE, error, NoPath, wrote)

\* An install() call returns `res`: to the view when it is the outermost call,
\* else into its caller's dependency loop, which discards the result.
return(res) ==
    IF Len(stack) = 1
    THEN /\ stack' = <<>>
         /\ last' = res
    ELSE /\ stack' = [SubSeq(stack, 1, Len(stack) - 1) EXCEPT ![Len(stack) - 1] =
                         [@ EXCEPT !.i = @ + 1, !.depFailed = @ \/ ~res.success]]
         /\ UNCHANGED last

\* The call goes on at `pc` with frame f.
goto(f, pc) ==
    /\ stack' = [stack EXCEPT ![Len(stack)] = [f EXCEPT !.pc = pc]]
    /\ UNCHANGED last

Pending(artifact) ==
    Outcome("install", artifact.catalogId, artifact.id, FALSE, FALSE, "pending", NoPath, NoTrace)

\* A view calls install(artifact, installRoot, repoConfig).
install(artifact) ==
    /\ Start
    /\ pre' = Snapshot
    /\ last' = Pending(artifact)
    /\ stack' = <<Frame(artifact, "start", <<>>, 1, NoPath)>>
    /\ UNCHANGED <<catalogs, artifacts, installations, fs, dirs, repositories, refresh>>
    /\ UNCHANGED <<schema, resolution, inflight>>

\* install without the existing check.
alreadyInstalledNever(artifact) == FALSE

\* const existing = this.getInstallation(artifact.catalogId, artifact.id); if (existing) throw
alreadyInstalled(artifact) == getInstallation(artifact.catalogId, artifact.id) # {}

Returns(res) == [returns |-> TRUE, res |-> res, pc |-> "", target |-> NoPath]

GoesOn(pc, target) == [returns |-> FALSE, res |-> NoTrace, pc |-> pc, target |-> target]

\* Conflict handling without the keep branch: keep falls through like replace.
keepAsReplace(f, targetPath, r) ==
    IF r.action = "cancel"
    THEN Returns(InstallResult(f, FALSE, FALSE, "Installation cancelled", targetPath, FALSE))
    ELSE IF r.action = "rename"
    THEN GoesOn("rename", renamedPath(targetPath, r.newName))
    ELSE GoesOn("deps", targetPath)

\* if (conflict) { ... }: what install does with the answer r to the prompt.
resolveConflict(f, targetPath, r) ==
    IF r.action = "cancel"
    THEN Returns(InstallResult(f, FALSE, FALSE, "Installation cancelled", targetPath, FALSE))
    ELSE IF r.action = "keep"
    THEN Returns(InstallResult(f, FALSE, FALSE, "Keeping existing file", targetPath, FALSE))
    ELSE IF r.action = "rename"
    THEN GoesOn("rename", renamedPath(targetPath, r.newName))
    ELSE GoesOn("deps", targetPath)

\* install, from its entry to the end of the conflict handling.
installCheck ==
    /\ stack # <<>>
    /\ Top.pc = "start"
    /\ ~resolveDependencies(Top.artifact).unfinished
    /\ UNCHANGED <<catalogs, artifacts, installations, fs, dirs, repositories, refresh, pre, ops>>
    /\ LET f == Top
           st == resolveDependencies(f.artifact)
           targetPath == getInstallPath(f.artifact)
           g == [f EXCEPT !.deps = st.deps, !.target = targetPath]
       IN IF alreadyInstalled(f.artifact)
          THEN return(caught(f, "Artifact already installed. Use update instead.", FALSE))
          ELSE IF st.missing # NoError
          THEN return(caught(f, dependencyNotFound(st.missing), FALSE))
          ELSE \/ return(caught(g, "No workspace folder open", FALSE))
               \/ /\ ~checkConflict(targetPath)
                  /\ goto(g, "deps")
               \/ /\ checkConflict(targetPath)
                  /\ \E r \in Resolutions :
                       LET h == [g EXCEPT !.answer = r.action]
                           d == resolveConflict(h, targetPath, r)
                       IN IF d.returns THEN return(d.res)
                          ELSE goto([h EXCEPT !.target = d.target], d.pc)
    /\ UNCHANGED <<schema, resolution, inflight>>

\* for (const dep of deps) { await this.install(dep, ...) }: the next dependency.
installDep ==
    /\ stack # <<>>
    /\ Top.pc = "deps"
    /\ Top.i <= Len(Top.deps)
    /\ Len(stack) < MaxDepth
    /\ stack' = Append([stack EXCEPT ![Len(stack)] = [@ EXCEPT !.ran = Append(@, Key(Top.deps[Top.i]))]],
                       Frame(Top.deps[Top.i], "start", <<>>, 1, NoPath))
    /\ UNCHANGED <<catalogs, artifacts, installations, fs, dirs, repositories, refresh, pre, last, ops>>
    /\ UNCHANGED <<schema, resolution, inflight>>

\* return await this.performInstall(artifact, targetPath | newPath, repoConfig)
installPerform ==
    /\ stack # <<>>
    /\ \/ Top.pc = "rename"
       \/ Top.pc = "deps" /\ Top.i > Len(Top.deps)
    /\ \E main \in MainFailures \cup {"ok"}, sup \in SupportingOutcomes(Len(Top.artifact.supportingFiles)) :
         LET p == performInstall(Top.artifact, Top.target, main, sup)
             res == IF p.threw THEN caught(Top, p.error, p.wrote)
                    ELSE InstallResult(Top, p.success, FALSE, p.error, p.path, p.wrote)
         IN /\ fs' = p.fs
            /\ dirs' = p.dirs
            /\ installations' = p.installations
            /\ return([res EXCEPT !.trace.attempted = p.attempted])
    /\ UNCHANGED <<catalogs, artifacts, repositories, refresh, pre, ops>>
    /\ UNCHANGED <<schema, resolution, inflight>>

\* ---- uninstall ----
ArtifactIds == {r.id : r \in KnownArtifacts}

\* uninstall without the not-installed throw.
notInstalledIgnored(op, catalogId, artifactId) ==
    Result(op, catalogId, artifactId, TRUE, FALSE, NoError, NoPath)

\* if (!installation) { throw new Error('Artifact not installed') }
notInstalled(op, catalogId, artifactId) ==
    Result(op, catalogId, artifactId, FALSE, TRUE, "Artifact not installed", NoPath)

\* The answers to the confirmation dialog: 'Delete', or dismissed.
Confirmations == {"Delete", "dismissed"}

Removal(files, directories, inst, removed) ==
    [fs |-> files, dirs |-> directories, installations |-> inst, removed |-> removed]

\* uninstall that gives up when the main file cannot be deleted.
removalBlocked(installation, confirm, mainDeleted, removedDirs) ==
    IF confirm # "Delete" \/ ~mainDeleted THEN Removal(fs, dirs, installations, FALSE)
    ELSE Removal(deleteFiles(fs, {installation.installedPath}),
                 dirs \ removedDirs, installations \ {installation}, TRUE)

\* uninstall without the confirmation test.
removalUnconfirmed(installation, confirm, mainDeleted, removedDirs) ==
    Removal(IF mainDeleted THEN deleteFiles(fs, {installation.installedPath}) ELSE fs,
            dirs \ removedDirs, installations \ {installation}, TRUE)

\* uninstall from the confirmation dialog on: the main file is deleted unless the
\* delete fails, the supporting directories in removedDirs are deleted, the
\* installation row is deleted.
removal(installation, confirm, mainDeleted, removedDirs) ==
    IF confirm # "Delete" THEN Removal(fs, dirs, installations, FALSE)
    ELSE Removal(IF mainDeleted THEN deleteFiles(fs, {installation.installedPath}) ELSE fs,
                 dirs \ removedDirs, installations \ {installation}, TRUE)

\* The views' 'uninstall' message handlers: uninstallResult with success: true
\* (search view), the uninstalled message and panel.dispose() (preview panel)
\* when the awaited uninstall did not throw, the failure message when it did.
uninstallResult(res) == [res EXCEPT !.reported = ~res.threw]

uninstall(catalogId, artifactId) ==
    /\ Start
    /\ pre' = Snapshot
    /\ UNCHANGED <<catalogs, artifacts, repositories, refresh, stack>>
    /\ LET found == getInstallation(catalogId, artifactId)
       IN IF found = {}
          THEN /\ last' = uninstallResult(notInstalled("uninstall", catalogId, artifactId))
               /\ UNCHANGED <<installations, fs, dirs>>
          ELSE LET installation == CHOOSE i \in found : TRUE
                   candidates == {supportingDir(artifactId), legacyHiddenDir(artifactId),
                                  legacyDir(installation.installedPath, artifactId)} \cap dirs
               IN \E confirm \in Confirmations, mainDeleted \in BOOLEAN, removedDirs \in SUBSET candidates :
                     LET r == removal(installation, confirm, mainDeleted, removedDirs)
                     IN /\ fs' = r.fs
                        /\ dirs' = r.dirs
                        /\ installations' = r.installations
                        /\ last' = uninstallResult(
                                       Result("uninstall", catalogId, artifactId, r.removed, FALSE,
                                              IF confirm = "Delete" THEN NoError ELSE "declined",
                                              installation.installedPath))
    /\ UNCHANGED <<schema, resolution, inflight>>

\* ---- update ----
\* update that installs to the default path of the artifact.
updateTargetDefault(installation, artifact) == getInstallPath(artifact)

\* performInstall(artifact, installation.installedPath, repoConfig): the path update writes to.
updateTarget(installation, artifact) == installation.installedPath

update(catalogId, artifactId) ==
    /\ Start
    /\ pre' = Snapshot
    /\ UNCHANGED <<catalogs, artifacts, repositories, refresh, stack>>
    /\ LET found == getInstallation(catalogId, artifactId)
           rows == getArtifact(catalogId, artifactId)
       IN IF found = {}
          THEN /\ last' = notInstalled("update", catalogId, artifactId)
               /\ UNCHANGED <<installations, fs, dirs>>
          ELSE IF rows = {}
          THEN /\ last' = Result("update", catalogId, artifactId, FALSE, TRUE,
                                 "Artifact not found in catalog", NoPath)
               /\ UNCHANGED <<installations, fs, dirs>>
          ELSE \E main \in MainFailures \cup {"ok"} :
               \E sup \in SupportingOutcomes(Len((CHOOSE r \in rows : TRUE).supportingFiles)) :
                 LET installation == CHOOSE i \in found : TRUE
                     artifact == CHOOSE r \in rows : TRUE
                     p == performInstall(artifact, updateTarget(installation, artifact), main, sup)
                 IN /\ fs' = p.fs
                    /\ dirs' = p.dirs
                    /\ installations' = p.installations
                    /\ last' = Outcome("update", catalogId, artifactId, p.success, p.threw, p.error,
                                       p.path,
                                       [Trace(<<>>, <<>>, p.wrote, FALSE, "none")
                                          EXCEPT !.attempted = p.attempted])
    /\ UNCHANGED <<schema, resolution, inflight>>

\* ------------------------------------------------------------ update checker
\* The rows of a table, one after the other.
RECURSIVE all(_)
all(rows) ==
    IF rows = {} THEN <<>>
    ELSE LET r == CHOOSE x \in rows : TRUE IN <<r>> \o all(rows \ {r})

\* An update only when the catalog's version is the higher one (a variant: the
\* versions are ordered, not just compared).
newer(installedVersion, latestVersion) ==
    installedVersion = "1.0.0" /\ latestVersion = "1.1.0"

\* The catalog's current version differs from the installed version.
differs(installedVersion, latestVersion) == latestVersion # installedVersion

UpdateInfo(installation, latestVersion) ==
    [installation |-> installation, latestVersion |-> latestVersion]

\* The updates of one catalog: its installations whose artifact row exists with
\* another version.
checkCatalog(catalogId) ==
    LET mine == all({i \in installations : i.catalogId = catalogId})
        latest(i) == {r.version : r \in getArtifact(i.catalogId, i.artifactId)}
        outdated == SelectSeq(mine, LAMBDA i : \E v \in latest(i) : differs(i.version, v))
    IN [k \in DOMAIN outdated |->
           UpdateInfo(outdated[k], CHOOSE v \in latest(outdated[k]) : differs(outdated[k].version, v))]

\* UpdateService.checkForUpdates(configs): the updates of every enabled config,
\* in the order of the setting.
RECURSIVE checkForUpdates(_)
checkForUpdates(configs) ==
    IF configs = <<>> THEN <<>>
    ELSE (IF Head(configs).enabled THEN checkCatalog(Head(configs).id) ELSE <<>>)
             \o checkForUpdates(Tail(configs))

\* UpdateService.getInstallationsWithUpdates(updates): one InstallationWithUpdate
\* per installation row; artifact is the empty set for null, newVersion the empty
\* tuple for null.
getInstallationsWithUpdates(updates) ==
    LET rows == all(installations)
        of(i) == SelectSeq(updates, LAMBDA u : u.installation = i)
    IN [k \in DOMAIN rows |->
           [installation |-> rows[k],
            updateAvailable |-> of(rows[k]) # <<>>,
            newVersion |-> IF of(rows[k]) = <<>> THEN <<>> ELSE <<Head(of(rows[k])).latestVersion>>,
            artifact |-> getArtifact(rows[k].catalogId, rows[k].artifactId)]]

\* The 'installedArtifacts' message, with the updates it was made from.
Listed(updates, artifacts_) ==
    [op |-> "getInstalled", catalogId |-> "", artifactId |-> "", success |-> TRUE,
     threw |-> FALSE, error |-> NoError, path |-> NoPath, trace |-> NoTrace, reported |-> FALSE,
     doc |-> "", updates |-> updates, artifacts |-> artifacts_]

\* The 'getInstalled' message of the installed view (and refreshInstalled).
getInstalled ==
    /\ Idle
    /\ LET updates == checkForUpdates(repositories)
       IN last' = Listed(updates, getInstallationsWithUpdates(updates))
    /\ UNCHANGED <<catalogs, artifacts, installations, fs, dirs, repositories, refresh, stack,
                   pre, ops, schema, resolution, inflight>>

\* ------------------------------------------------------------ specification
EmptyFs == <<>>

\* The workspace before the extension first runs: empty, or holding a file of the
\* user's at the path of artifact a.
InitialWorkspaces ==
    { [fs |-> EmptyFs, dirs |-> {}],
      [fs |-> writeFile(EmptyFs, Path("prompt", "a", ".md"), UserContent), dirs |-> {}] }

Init ==
    /\ catalogs = {}
    /\ artifacts = {}
    /\ installations = {}
    /\ \E w \in InitialWorkspaces : fs = w.fs /\ dirs = w.dirs
    /\ repositories = <<>>
    /\ refresh = NoRefresh
    /\ schema = CurrentSchema
    /\ resolution = NoUrl
    /\ stack = <<>>
    /\ pre = Snapshot
    /\ last = Result("none", "", "", TRUE, FALSE, NoError, NoPath)
    /\ ops = 0
    /\ inflight = {}

Next ==
    \/ \E config \in Configs : \E doc \in fetchCatalog(config.url) : addCatalog(config, doc)
    \/ \E c \in CatalogIds : refreshCatalog(c)
    \/ refreshAll
    \/ \E config \in Configs : \E doc \in fetchCatalog(config.url) :
          /\ refresh.queue # <<>>
          /\ config = Head(refresh.queue)
          /\ refreshCatalogFetched(doc)
    \/ \E c \in CatalogIds : removeCatalog(c)
    \/ \E artifact \in KnownArtifacts : install(artifact)
    \/ installCheck
    \/ installDep
    \/ installPerform
    \/ \E c \in CatalogIds, a \in ArtifactIds : uninstall(c, a)
    \/ \E c \in CatalogIds, a \in ArtifactIds : update(c, a)

Spec == Init /\ [][Next]_vars

\* The same operations, with the installed view asking for its list in between.
UpdateNext == Next \/ getInstalled

UpdateSpec == Init /\ [][UpdateNext]_vars

\* --------------------------------------------------- schema specification
\* initializeSchema(db), run when the extension is activated.
initializeSchema ==
    /\ Start
    /\ pre' = Snapshot
    /\ LET cur == schema.version
           s1 == IF cur < 1 THEN initializeSchemaV1(schema) ELSE schema
           m2 == IF cur < 2 THEN migrateToV2(s1) ELSE Migrated(s1, NoError)
           s3 == IF cur < 3 THEN migrateToV3(m2.schema) ELSE m2.schema
       IN IF m2.error # NoError
          THEN /\ schema' = m2.schema
               /\ last' = Result("initializeSchema", "", "", FALSE, TRUE, m2.error, NoPath)
          ELSE /\ schema' = [s3 EXCEPT !.version = SchemaVersion]
               /\ last' = Result("initializeSchema", "", "", TRUE, FALSE, NoError, NoPath)
    /\ UNCHANGED <<catalogs, artifacts, installations, fs, dirs, repositories, refresh, stack, resolution, inflight>>

\* The rows a store can hold: catalog c1, its artifacts a and b, and installation
\* records of a and b.
StoredCatalogs == {[id |-> "c1", url |-> "u1", metadata |-> "first", status |-> "healthy", error |-> NoError]}

StoredArtifacts == {WithSource(Entry(id, "prompt", "1.0.0", <<>>, <<>>), "c1") : id \in {"a", "b"}}

StoredInstallations ==
    {[artifactId |-> r.id, catalogId |-> r.catalogId, version |-> r.version,
      installedPath |-> getInstallPath(r)] : r \in StoredArtifacts}

\* The stores the extension can find when it is activated: a new database; a
\* version 1 store, whose installations table has no foreign keys, so that its rows
\* may name artifacts that are gone; a version 2 store; a version 3 store. Before
\* version 3 the artifacts table may lack supporting_files.
Stores ==
    LET rows == {db \in [catalogs : SUBSET StoredCatalogs, artifacts : SUBSET StoredArtifacts,
                         installations : SUBSET StoredInstallations] :
                    artifactsCascade(db) = db}
        keyed == {db \in rows : installationsCascade(db) = db}
    IN {[db |-> [catalogs |-> {}, artifacts |-> {}, installations |-> {}],
         schema |-> Shape(0, "none", "none", FALSE)]}
         \cup {[db |-> db, schema |-> Shape(1, "plain", art, FALSE)] : db \in rows, art \in {"old", "full"}}
         \cup {[db |-> db, schema |-> Shape(2, "fk", art, FALSE)] : db \in keyed, art \in {"old", "full"}}
         \cup {[db |-> db, schema |-> Shape(SchemaVersion, "fk", "full", FALSE)] : db \in keyed}

SchemaInit ==
    /\ \E st \in Stores :
          /\ catalogs = st.db.catalogs
          /\ artifacts = st.db.artifacts
          /\ installations = st.db.installations
          /\ schema = st.schema
    /\ fs = EmptyFs
    /\ dirs = {}
    /\ repositories = <<>>
    /\ refresh = NoRefresh
    /\ stack = <<>>
    /\ pre = Snapshot
    /\ last = Result("none", "", "", TRUE, FALSE, NoError, NoPath)
    /\ ops = 0
    /\ inflight = {}
    /\ resolution = NoUrl

SchemaNext == initializeSchema

SchemaSpec == SchemaInit /\ [][SchemaNext]_vars

\* ------------------------------------------------- resolver specification
\* The manifests the resolver is exercised on, all of catalog c1:
\* cycle: a <-> b; chain: a -> b -> c; diamond: a -> b, c and b, c -> d;
\* delisted: a -> b -> x, where x is listed nowhere (any more);
\* aliased: a -> x, y, ids that only the keywords of k match.
DependencyGraphs ==
    { << Entry("a", "prompt", "1.0.0", <<"b">>, <<>>),
         Entry("b", "prompt", "1.0.0", <<"a">>, <<>>) >>,
      << Entry("a", "prompt", "1.0.0", <<"b">>, <<>>),
         Entry("b", "prompt", "1.0.0", <<"c">>, <<>>),
         Entry("c", "prompt", "1.0.0", <<>>, <<>>) >>,
      << Entry("a", "prompt", "1.0.0", <<"b", "c">>, <<>>),
         Entry("b", "prompt", "1.0.0", <<"d">>, <<>>),
         Entry("c", "prompt", "1.0.0", <<"d">>, <<>>),
         Entry("d", "prompt", "1.0.0", <<>>, <<>>) >>,
      << Entry("a", "prompt", "1.0.0", <<"b">>, <<>>),
         Entry("b", "prompt", "1.0.0", <<"x">>, <<>>) >>,
      << Entry("a", "prompt", "1.0.0", <<"x", "y">>, <<>>),
         Entry("k", "prompt", "1.0.0", <<>>, <<>>) >> }

\* The manifests of catalogs c1 and c2 together: each graph above with an empty
\* c2, and one pair where a of c1 needs b, listed in c2 only, and b needs c,
\* listed in both catalogs at different versions.
Manifests ==
    {[c1 |-> g, c2 |-> <<>>] : g \in DependencyGraphs}
      \cup {[c1 |-> << Entry("a", "prompt", "1.0.0", <<"b">>, <<>>),
                       Entry("c", "prompt", "1.0.0", <<>>, <<>>) >>,
              c2 |-> << Entry("b", "prompt", "1.0.0", <<"c">>, <<>>),
                       Entry("c", "prompt", "1.1.0", <<>>, <<>>) >>]}

\* The store and workspace after the catalogs were added with the manifests m
\* and the artifacts in `chosen` are installed at their default paths. (Any set
\* of artifacts with different paths can be the installed ones: install() goes on
\* when the install of a dependency fails, and an installed artifact outlives
\* the catalog that held one of its dependencies.)
Workspace(m, chosen) ==
    LET rows == {WithSource(e, "c1") : e \in Range(m.c1)} \cup {WithSource(e, "c2") : e \in Range(m.c2)}
        there == {r \in rows : Key(r) \in chosen}
        listed == {cfg \in Configs : cfg.enabled /\ (cfg.id = "c1" \/ m.c2 # <<>>)}
    IN [catalogs |-> {[id |-> cfg.id, url |-> cfg.url, metadata |-> "first",
                       status |-> "healthy", error |-> NoError] : cfg \in listed},
        artifacts |-> rows,
        installations |-> {[artifactId |-> r.id, catalogId |-> r.catalogId, version |-> r.version,
                            installedPath |-> getInstallPath(r)] : r \in there},
        fs |-> [q \in {getInstallPath(r) : r \in there} |->
                   Content(CHOOSE r \in there : getInstallPath(r) = q)],
        repositories |-> all(listed)]

ResolveInit ==
    /\ \E m \in Manifests :
          \E chosen \in SUBSET ({<<"c1", e.id>> : e \in Range(m.c1)} \cup {<<"c2", e.id>> : e \in Range(m.c2)}) :
              /\ \A k1, k2 \in chosen : k1[2] = k2[2] => k1 = k2
              /\ LET w == Workspace(m, chosen)
                 IN /\ catalogs = w.catalogs
                    /\ artifacts = w.artifacts
                    /\ installations = w.installations
                    /\ fs = w.fs
                    /\ repositories = w.repositories
    /\ dirs = {}
    /\ refresh = NoRefresh
    /\ schema = CurrentSchema
    /\ resolution = NoUrl
    /\ stack = <<>>
    /\ pre = Snapshot
    /\ last = Result("none", "", "", TRUE, FALSE, NoError, NoPath)
    /\ ops = 0
    /\ inflight = {}

\* const deps = await this.resolveDependencies(artifact), on its own: what the
\* resolver returns (trace.deps) or throws for an indexed artifact.
resolveArtifact(artifact) ==
    /\ Start
    /\ pre' = Snapshot
    /\ LET st == resolveDependencies(artifact)
       IN last' = Outcome("resolveDependencies", artifact.catalogId, artifact.id,
                          st.missing = NoError /\ ~st.unfinished, st.missing # NoError,
                          IF st.unfinished THEN "unfinished"
                          ELSE IF st.missing # NoError THEN dependencyNotFound(st.missing)
                          ELSE NoError,
                          NoPath, Trace(st.deps, <<>>, FALSE, FALSE, "none"))
    /\ UNCHANGED <<catalogs, artifacts, installations, fs, dirs, repositories, refresh, stack>>
    /\ UNCHANGED <<schema, resolution, inflight>>

ResolveNext ==
    \/ \E artifact \in artifacts : resolveArtifact(artifact)
    \/ \E artifact \in artifacts : install(artifact)
    \/ installCheck
    \/ installDep
    \/ installPerform

ResolveSpec == ResolveInit /\ [][ResolveNext]_vars

\* ------------------------------------------------ source URL specification
\* Declared repository URLs of GitLab projects, with what follows the project.
GitLabUrls ==
    {Declared("gitlab", "https://gitlab.com", project, dropped) :
        project \in {"/org/repo", "/group/sub/repo"},
        dropped \in {"", "/", "/-/raw/", "/-/raw/main", "/-/raw/main/", "/-/raw/develop/catalog.json"}}
        \cup {Declared("gitlab", "https://gitlab.com", "/org/repo/", "/"),
              Declared("gitlab", "https://gitlab.com", "/org/repo/-/tree/main", "")}

\* Declared repository URLs of GitHub projects, on either host.
GitHubUrls ==
    {Declared("github", "https://github.com", "/org/repo", dropped) :
        dropped \in {"", "/", "/blob/main/README.md", "/blob/main/", "/raw/main/catalog.json"}}
        \cup {Declared("github", "https://raw.githubusercontent.com", "/org/repo", dropped) :
                 dropped \in {"", "/", "/main", "/main/catalog.json"}}

\* Declared URLs of other hosts: a directory (kept), then nothing, a slash or a
\* file name.
GenericUrls ==
    {Declared("generic", origin, d[1], d[2]) :
        origin \in {"https://pages.dev", "https://example.co.uk",
                    "https://chatmode-53b054.gitlab.io", "http://artifacts.internal"},
        d \in {<<"", "">>, <<"", "/">>, <<"/api/artifacts", "">>, <<"/artifacts", "/">>,
               <<"/catalogs", "/copilot-catalog.json">>, <<"", "/catalog.json">>,
               <<"/catalogs", "/catalog.json/">>, <<"", "/catalog.json?v=1">>}}

\* The repository types a catalog declares for each family of URL.
Types(family) ==
    IF family = "gitlab" THEN {"gitlab", "GitLab", "GITLAB"}
    ELSE IF family = "github" THEN {"github", "GitHub"}
    ELSE {"generic", "git", "http"}

Branches == {<<>>, <<"">>, <<"main">>, <<"develop">>}

ArtifactPaths == {"chatmodes/test.chatmode.md", "a/b.md"}

\* A catalog document is about to be indexed: its repository and the path of
\* one of its artifacts.
UrlInit ==
    /\ catalogs = {}
    /\ artifacts = {}
    /\ installations = {}
    /\ fs = EmptyFs
    /\ dirs = {}
    /\ repositories = <<>>
    /\ refresh = NoRefresh
    /\ schema = CurrentSchema
    /\ \E declared \in GitLabUrls \cup GitHubUrls \cup GenericUrls :
          \E type \in Types(declared.family), branch \in Branches, artifactPath \in ArtifactPaths :
              resolution =
                  [repo |-> Repository(type, declared.origin \o declared.kept \o declared.dropped, branch),
                   path |-> artifactPath, resolved |-> "", declared |-> declared]
    /\ stack = <<>>
    /\ pre = Snapshot
    /\ last = Result("none", "", "", TRUE, FALSE, NoError, NoPath)
    /\ ops = 0
    /\ inflight = {}

\* indexArtifacts: the source_url of the artifact.
sourceUrl ==
    /\ resolution.resolved = ""
    /\ resolution' = [resolution EXCEPT !.resolved = resolveArtifactUrl(resolution.repo, resolution.path)]
    /\ UNCHANGED <<catalogs, artifacts, installations, fs, dirs, repositories, refresh, stack,
                   pre, last, ops, schema, inflight>>

UrlNext == sourceUrl

UrlSpec == UrlInit /\ [][UrlNext]_vars

\* ------------------------------------------------ concurrent specification
\* Calls of install, update, uninstall and refreshCatalog that run side by side:
\* a call runs from one await to the next in one step, and the steps of the
\* calls in flight interleave in any order. Catalog c1 lists a alone, without
\* dependencies and supporting files.
FlatManifest == [c1 |-> << Entry("a", "prompt", "1.0.0", <<>>, <<>>) >>, c2 |-> <<>>]

\* What a refresh of c1 fetches: a newer a, an empty manifest, or a failure.
FlatDocuments ==
    {Fetched(Document("second", << Entry("a", "prompt", "1.1.0", <<>>, <<>>) >>)),
     Fetched(Document("empty", << >>))}
      \cup {Failed(f, "") : f \in FetchFailures}

\* A call in flight: its number, the artifact (or catalog) it is about, the
\* await it is at, the path it writes or deletes, and the calls it has met.
Call(n, op, artifact, pc, target, met) ==
    [n |-> n, op |-> op, artifact |-> artifact, pc |-> pc, target |-> target, met |-> met]

\* The subject of an uninstall or a refresh, which hold no artifact value.
Named(catalogId, artifactId, version) ==
    WithSource(Entry(artifactId, "prompt", version, <<>>, <<>>), catalogId)

Met(c) == [n |-> c.n, op |-> c.op, key |-> Key(c.artifact)]

\* What call c returned or threw, with the calls that were in flight beside it.
Returned(c, op, success, threw, error, wrote) ==
    [op |-> op, catalogId |-> c.artifact.catalogId, artifactId |-> c.artifact.id,
     success |-> success, threw |-> threw, error |-> error, path |-> c.target,
     trace |-> Trace(<<>>, <<>>, wrote, FALSE, "none"), reported |-> FALSE, doc |-> "",
     met |-> c.met]

ConcurrentInit ==
    /\ \E chosen \in SUBSET {<<"c1", "a">>} :
          LET w == Workspace(FlatManifest, chosen)
          IN /\ catalogs = w.catalogs
             /\ artifacts = w.artifacts
             /\ installations = w.installations
             /\ fs = w.fs
             /\ repositories = w.repositories
    /\ dirs = {}
    /\ refresh = NoRefresh
    /\ schema = CurrentSchema
    /\ resolution = NoUrl
    /\ stack = <<>>
    /\ pre = Snapshot
    /\ last = Result("none", "", "", TRUE, FALSE, NoError, NoPath)
    /\ ops = 0
    /\ inflight = {}

\* A call begins beside the calls in flight.
Begin ==
    /\ ops < MaxOps
    /\ Cardinality(inflight) < MaxInflight
    /\ ops' = ops + 1

\* The call c joins the calls in flight, which meet it.
enter(c) ==
    inflight' = {[o EXCEPT !.met = @ \cup {Met(c)}] : o \in inflight}
                   \cup {[c EXCEPT !.met = {Met(o) : o \in inflight}]}

\* The call c goes on to its next await.
proceed(c, pc, target) ==
    /\ inflight' = (inflight \ {c}) \cup {[c EXCEPT !.pc = pc, !.target = target]}
    /\ UNCHANGED last

\* The call c returns or throws.
leave(c, res) ==
    /\ inflight' = inflight \ {c}
    /\ last' = res

\* install(artifact): the existing check, up to the await of checkConflict.
callInstall(artifact) ==
    /\ Begin
    /\ LET c == Call(ops + 1, "install", artifact, "conflict", getInstallPath(artifact), {})
       IN IF alreadyInstalled(artifact)
          THEN /\ last' = Returned(c, "install", FALSE, FALSE,
                                   "Artifact already installed. Use update instead.", FALSE)
               /\ UNCHANGED inflight
          ELSE /\ enter(c)
               /\ UNCHANGED last
    /\ UNCHANGED <<catalogs, artifacts, installations, fs, dirs, repositories, refresh, stack, pre,
                   schema, resolution>>

\* install after fs.stat: the conflict prompt, if a file is at the target path.
installConflict(c) ==
    /\ c.op = "install" /\ c.pc = "conflict"
    /\ resolveDependencies(c.artifact).deps = <<>>
    /\ \/ /\ ~checkConflict(c.target)
          /\ proceed(c, "fetch", c.target)
       \/ /\ checkConflict(c.target)
          /\ \E r \in Resolutions :
                LET d == resolveConflict(Frame(c.artifact, "start", <<>>, 1, c.target), c.target, r)
                IN IF d.returns
                   THEN leave(c, Returned(c, "install", FALSE, FALSE, d.res.error, FALSE))
                   ELSE proceed(c, "fetch", d.target)
    /\ UNCHANGED <<catalogs, artifacts, installations, fs, dirs, repositories, refresh, stack, pre,
                   ops, schema, resolution>>

\* update(catalogId, artifactId): the installation and the artifact row are read,
\* performInstall begins.
callUpdate(catalogId, artifactId) ==
    /\ Begin
    /\ LET found == getInstallation(catalogId, artifactId)
           rows == getArtifact(catalogId, artifactId)
           none == Call(ops + 1, "update", Named(catalogId, artifactId, ""), "", NoPath, {})
       IN IF found = {}
          THEN /\ last' = Returned(none, "update", FALSE, TRUE, "Artifact not installed", FALSE)
               /\ UNCHANGED inflight
          ELSE IF rows = {}
          THEN /\ last' = Returned(none, "update", FALSE, TRUE, "Artifact not found in catalog", FALSE)
               /\ UNCHANGED inflight
          ELSE LET installation == CHOOSE i \in found : TRUE
                   artifact == CHOOSE r \in rows : TRUE
               IN /\ enter(Call(ops + 1, "update", artifact, "fetch",
                                updateTarget(installation, artifact), {}))
                  /\ UNCHANGED last
    /\ UNCHANGED <<catalogs, artifacts, installations, fs, dirs, repositories, refresh, stack, pre,
                   schema, resolution>>

\* performInstall after http.fetchText: the content, or the failure is returned.
performFetched(c) ==
    /\ c.op \in {"install", "update"} /\ c.pc = "fetch"
    /\ \/ proceed(c, "write", c.target)
       \/ leave(c, Returned(c, c.op, FALSE, FALSE, "download", FALSE))
    /\ UNCHANGED <<catalogs, artifacts, installations, fs, dirs, repositories, refresh, stack, pre,
                   ops, schema, resolution>>

\* performInstall after createDirectory and writeFile: the main file is written,
\* or the failure is returned.
performWritten(c) ==
    /\ c.op \in {"install", "update"} /\ c.pc = "write"
    /\ \/ /\ fs' = writeFile(fs, c.target, Content(c.artifact))
          /\ proceed(c, "record", c.target)
       \/ /\ leave(c, Returned(c, c.op, FALSE, FALSE, "write", FALSE))
          /\ UNCHANGED fs
    /\ UNCHANGED <<catalogs, artifacts, installations, dirs, repositories, refresh, stack, pre,
                   ops, schema, resolution>>

\* performInstall from the INSERT OR REPLACE on: the row is written and the call
\* returns, or the foreign keys reject the row and the failure is returned.
performRecorded(c) ==
    /\ c.op \in {"install", "update"} /\ c.pc = "record"
    /\ IF installationAdmitted(c.artifact)
       THEN /\ installations' = recordInstallation(installations, c.artifact, c.target)
            /\ leave(c, Returned(c, c.op, TRUE, FALSE, NoError, TRUE))
       ELSE /\ leave(c, Returned(c, c.op, FALSE, FALSE, "FOREIGN KEY constraint failed", TRUE))
            /\ UNCHANGED installations
    /\ UNCHANGED <<catalogs, artifacts, fs, dirs, repositories, refresh, stack, pre,
                   ops, schema, resolution>>

\* uninstall(catalogId, artifactId), up to the confirmation dialog.
callUninstall(catalogId, artifactId) ==
    /\ Begin
    /\ LET found == getInstallation(catalogId, artifactId)
           none == Call(ops + 1, "uninstall", Named(catalogId, artifactId, ""), "", NoPath, {})
       IN IF found = {}
          THEN /\ last' = Returned(none, "uninstall", FALSE, TRUE, "Artifact not installed", FALSE)
               /\ UNCHANGED inflight
          ELSE LET installation == CHOOSE i \in found : TRUE
               IN /\ enter(Call(ops + 1, "uninstall",
                                Named(catalogId, artifactId, installation.version),
                                "confirm", installation.installedPath, {}))
                  /\ UNCHANGED last
    /\ UNCHANGED <<catalogs, artifacts, installations, fs, dirs, repositories, refresh, stack, pre,
                   schema, resolution>>

\* uninstall after the dialog: it returns unless the answer is 'Delete'.
uninstallConfirmed(c) ==
    /\ c.op = "uninstall" /\ c.pc = "confirm"
    /\ \E confirm \in Confirmations :
          IF confirm = "Delete" THEN proceed(c, "delete", c.target)
          ELSE leave(c, Returned(c, "uninstall", FALSE, FALSE, "declined", FALSE))
    /\ UNCHANGED <<catalogs, artifacts, installations, fs, dirs, repositories, refresh, stack, pre,
                   ops, schema, resolution>>

\* uninstall after fs.delete of the main file, which may have failed.
uninstallDeleted(c) ==
    /\ c.op = "uninstall" /\ c.pc = "delete"
    /\ \E mainDeleted \in BOOLEAN :
          fs' = IF mainDeleted THEN deleteFiles(fs, {c.target}) ELSE fs
    /\ proceed(c, "row", c.target)
    /\ UNCHANGED <<catalogs, artifacts, installations, dirs, repositories, refresh, stack, pre,
                   ops, schema, resolution>>

\* uninstall from the deletes of the supporting directories on: DELETE FROM
\* installations WHERE artifact_id = ? AND catalog_id = ?
uninstallRow(c) ==
    /\ c.op = "uninstall" /\ c.pc = "row"
    /\ installations' = installations \ getInstallation(c.artifact.catalogId, c.artifact.id)
    /\ dirs' = dirs \ {supportingDir(c.artifact.id), legacyHiddenDir(c.artifact.id),
                       legacyDir(c.target, c.artifact.id)}
    /\ leave(c, Returned(c, "uninstall", TRUE, FALSE, NoError, FALSE))
    /\ UNCHANGED <<catalogs, artifacts, fs, repositories, refresh, stack, pre,
                   ops, schema, resolution>>

\* refreshCatalog(catalogId, config), by a view or by the timer's sweep, up to
\* the await of resolveAuth: the status is 'updating'.
callRefresh(config) ==
    /\ Begin
    /\ catalogs' = begin(catalogs, <<config>>)
    /\ enter(Call(ops + 1, "refresh", Named(config.id, "", ""), "fetch", NoPath, {}))
    /\ UNCHANGED <<artifacts, installations, fs, dirs, repositories, refresh, stack, pre, last,
                   schema, resolution>>

\* refreshCatalog after fetchCatalog: the transaction, or the catch block.
refreshFetched(c, doc) ==
    /\ c.op = "refresh" /\ c.pc = "fetch"
    /\ LET config == CHOOSE cfg \in Configs : cfg.id = c.artifact.catalogId /\ cfg.enabled
           r == refreshWith(Db, config, doc)
       IN /\ catalogs' = r.db.catalogs
          /\ artifacts' = r.db.artifacts
          /\ installations' = r.db.installations
          /\ leave(c, Returned(c, "refreshCatalog", r.ok, ~r.ok, r.error, FALSE))
    /\ UNCHANGED <<fs, dirs, repositories, refresh, stack, pre, ops, schema, resolution>>

ConcurrentNext ==
    \/ \E artifact \in artifacts : callInstall(artifact)
    \/ \E i \in {<<"c1", "a">>} : callUpdate(i[1], i[2])
    \/ \E i \in {<<"c1", "a">>} : callUninstall(i[1], i[2])
    \/ \E k \in DOMAIN repositories : callRefresh(repositories[k])
    \/ \E c \in inflight : installConflict(c)
    \/ \E c \in inflight : performFetched(c)
    \/ \E c \in inflight : performWritten(c)
    \/ \E c \in inflight : performRecorded(c)
    \/ \E c \in inflight : uninstallConfirmed(c)
    \/ \E c \in inflight : uninstallDeleted(c)
    \/ \E c \in inflight : uninstallRow(c)
    \/ \E c \in inflight : \E doc \in FlatDocuments : refreshFetched(c, doc)

ConcurrentSpec == ConcurrentInit /\ [][ConcurrentNext]_vars

\* -------------------------------------------------------------- properties
Finished(op) == Idle /\ last.op = op

\* The installation rows of one catalog.
InstalledFrom(inst, catalogId) == {i \in inst : i.catalogId = catalogId}

\* C1: a catalog refresh that succeeds keeps every installation record: each
\* record that existed before the refresh exists afterwards with the same
\* version and installedPath.
C1_RefreshKeepsInstallations ==
    (Finished("refreshCatalog") /\ last.success) => pre.installations \subseteq installations

\* C2: deletes cascade. Every artifact row's catalog exists, every installation
\* row's catalog and artifact row exist; after a catalog is removed no artifact
\* row and no installation row of it is left; after the artifact rows of a
\* catalog were deleted by a refresh, the installation rows that referenced
\* them are gone.
C2_DeletesCascade ==
    /\ \A r \in artifacts : \E c \in catalogs : c.id = r.catalogId
    /\ \A i \in installations :
         /\ \E c \in catalogs : c.id = i.catalogId
         /\ \E r \in artifacts : r.id = i.artifactId /\ r.catalogId = i.catalogId
    /\ (Finished("removeCatalog") /\ last.success) =>
         /\ \A r \in artifacts : r.catalogId # last.catalogId
         /\ InstalledFrom(installations, last.catalogId) = {}
    /\ (Finished("refreshCatalog") /\ last.success) =>
         InstalledFrom(installations, last.catalogId) = {}

\* C2 witness: a catalog with artifact rows and an installation was removed.
C2_Witness ==
    /\ Finished("removeCatalog")
    /\ last.success
    /\ InstalledFrom(pre.installations, last.catalogId) # {}
    /\ \E r \in pre.artifacts : r.catalogId = last.catalogId

\* The store, the files and the directories are as they were when the last
\* operation began.
NothingChanged ==
    /\ catalogs = pre.catalogs
    /\ artifacts = pre.artifacts
    /\ installations = pre.installations
    /\ fs = pre.fs
    /\ dirs = pre.dirs
    /\ repositories = pre.repositories

\* The pair of the last operation had an installation record when it began.
WasInstalled == getInstallationIn(pre.installations, last.catalogId, last.artifactId) # {}

\* C3: install of a pair that already has an installation record changes neither
\* the installation table nor the files, starts no dependency install, and returns
\* a non-success result carrying the already-installed error.
C3_AlreadyInstalled ==
    (last.op = "install" /\ WasInstalled) =>
        /\ NothingChanged
        /\ Len(stack) <= 1
        /\ Idle => (~last.success /\ ~last.threw /\ last.error = "Artifact already installed. Use update instead."
                    /\ last.trace.ran = <<>>)

\* C3 witness: an install of an installed pair has returned.
C3_Witness == Finished("install") /\ WasInstalled /\ last.error = "Artifact already installed. Use update instead."

\* C4: install never throws: whatever fails, the call returns a result, and a
\* result without success carries an error text.
C4_InstallNeverThrows ==
    Finished("install") => (~last.threw /\ (last.success <=> last.error = NoError))

\* C4 witness: an install failed inside performInstall, where resolveAuth throws
\* outside the inner try block.
C4_Witness == Finished("install") /\ ~last.success /\ last.error = "auth"

\* The keys of a list of artifacts, in order.
Keys(deps) == [k \in DOMAIN deps |-> Key(deps[k])]

\* C5: when install has written its main file, it has before that called install
\* for every artifact of its resolved dependency list, in the resolver's order.
C5_DependenciesFirst ==
    (Finished("install") /\ last.trace.wrote) => last.trace.ran = Keys(last.trace.deps)

\* C6: once the install of a dependency has returned a non-success result, the
\* dependent install starts no further dependency install, does not write its
\* main file and returns a non-success result.
C6_DependencyFailureAborts ==
    /\ \A k \in 1 .. Len(stack) - 1 : ~stack[k].depFailed
    /\ (Finished("install") /\ last.trace.depFailed) => (~last.success /\ ~last.trace.wrote)

\* C7: a conflict at the target path resolved with keep: the install call ends
\* with that answer, no file is written, no installation record is added, no
\* dependency is installed, and the result is a non-success result.
C7_KeepChangesNothing ==
    /\ \A k \in DOMAIN stack : stack[k].answer # "keep"
    /\ (Finished("install") /\ last.trace.answer = "keep") =>
           (NothingChanged /\ ~last.success /\ last.trace.ran = <<>> /\ ~last.trace.wrote)

\* C7 witness: keep was chosen for an artifact that has dependencies to install.
C7_Witness ==
    /\ Finished("install")
    /\ last.trace.answer = "keep"
    /\ last.trace.deps # <<>>
    /\ last.path \in DOMAIN fs

\* C8: install terminates on cyclic dependency graphs, installing each involved
\* artifact at most once: no artifact has two install calls in flight.
C8_EachInstalledOnce ==
    \A j, k \in DOMAIN stack : j # k => Key(stack[j].artifact) # Key(stack[k].artifact)

\* C9: uninstall of a pair without an installation record throws the
\* not-installed error and leaves the store, the files and the directories as
\* they were.
C9_UninstallNotInstalled ==
    (Finished("uninstall") /\ ~WasInstalled) =>
        (last.threw /\ last.error = "Artifact not installed" /\ NothingChanged)

\* C9 witness: uninstall was called for a pair that is not installed while
\* another artifact is.
C9_Witness == Finished("uninstall") /\ ~WasInstalled /\ pre.installations # {}

\* C10: without the answer Delete to the confirmation dialog, uninstall leaves the
\* main file, the supporting directories and the installation record unchanged.
C10_NoDeleteWithoutConfirmation ==
    (Finished("uninstall") /\ WasInstalled /\ last.error = "declined") => NothingChanged

\* C10 witness: the dialog of an uninstall of an installed artifact was dismissed.
C10_Witness ==
    /\ Finished("uninstall")
    /\ WasInstalled
    /\ last.error = "declined"
    /\ last.path \in DOMAIN fs
    /\ supportingDir(last.artifactId) \in dirs

\* The installation records of the pair of the last operation, before it and now.
RecordsBefore == getInstallationIn(pre.installations, last.catalogId, last.artifactId)

RecordsNow == getInstallationIn(installations, last.catalogId, last.artifactId)

\* C11: a confirmed uninstall of an installed artifact ends with the installation
\* record of the pair removed and no other record touched, whether or not the
\* main file and the supporting directories could be deleted; it does not throw.
C11_ConfirmedUninstallRemovesRecord ==
    (Finished("uninstall") /\ WasInstalled /\ last.error # "declined") =>
        /\ installations = pre.installations \ RecordsBefore
        /\ last.success /\ ~last.threw
        /\ catalogs = pre.catalogs /\ artifacts = pre.artifacts

\* C11 witness: the uninstall was confirmed, the delete of the main file failed,
\* there was no supporting directory at the current location, and the record is gone.
C11_Witness ==
    /\ Finished("uninstall") /\ WasInstalled /\ last.success
    /\ last.path \in DOMAIN fs
    /\ supportingDir(last.artifactId) \notin pre.dirs
    /\ RecordsNow = {}

\* The artifact rows of the pair of the last operation.
RowsNow == {r \in artifacts : r.catalogId = last.catalogId /\ r.id = last.artifactId}

\* C12: after a successful update the file at the installed path holds the
\* catalog's current content, and the pair has exactly one installation record,
\* with the installed path it had before and the version of the current artifact
\* row; the records of other pairs are as before.
C12_UpdateInPlace ==
    (Finished("update") /\ last.success) =>
        /\ Cardinality(RecordsBefore) = 1 /\ Cardinality(RecordsNow) = 1
        /\ \A old \in RecordsBefore, new \in RecordsNow, r \in RowsNow :
              /\ new.installedPath = old.installedPath
              /\ new.version = r.version
              /\ new.installedPath \in DOMAIN fs
              /\ fs[new.installedPath] = Content(r)
              /\ last.path = old.installedPath
        /\ RowsNow # {}
        /\ installations \ RecordsNow = pre.installations \ RecordsBefore

\* C12 witness: a successful update of an artifact that was installed under
\* another name than its default one.
C12_Witness ==
    /\ Finished("update") /\ last.success
    /\ \E r \in RowsNow : last.path # getInstallPath(r)

\* C13: a failed update leaves the installation table as it was. Without an
\* installation record it throws the not-installed error, without the artifact row
\* the not-found-in-catalog error; after a failed download or write the record
\* keeps its version and installed path and no record is added.
C13_FailedUpdateKeepsRecords ==
    (Finished("update") /\ ~last.success) =>
        /\ installations = pre.installations
        /\ ~WasInstalled => (last.threw /\ last.error = "Artifact not installed")
        /\ (WasInstalled /\ RowsNow = {}) =>
              (last.threw /\ last.error = "Artifact not found in catalog")
        /\ last.error # NoError

\* C13 witness: the update of an installed artifact failed at the download or the
\* write of the main file.
C13_Witness ==
    /\ Finished("update") /\ ~last.success /\ WasInstalled
    /\ last.error \in {"download", "write"}
    /\ ~last.trace.wrote

\* The last operation's catalog id or url was that of a catalog already stored.
WasStored ==
    \E c \in pre.catalogs, config \in Configs :
        config.id = last.catalogId /\ (c.id = config.id \/ c.url = config.url)

\* C14: adding a catalog whose id or url is that of a stored catalog fails and
\* leaves the catalog rows, the artifact rows and the installation rows as they were.
C14_AddConflictRejected ==
    (Finished("addCatalog") /\ WasStored) =>
        /\ ~last.success /\ last.error # NoError
        /\ catalogs = pre.catalogs
        /\ artifacts = pre.artifacts
        /\ installations = pre.installations

\* The artifact rows of a catalog in a table of artifact rows.
RowsOf(rows, catalogId) == {r \in rows : r.catalogId = catalogId}

\* The rows a document gives a catalog.
Indexed(catalogId, d) == {WithSource(e, catalogId) : e \in Range(d.artifacts)}

\* The complete artifact sets a catalog can hold: none, or the rows of one
\* document of its url that lists no id twice.
CompleteSets(config) ==
    {{}} \cup {Indexed(config.id, d) :
                 d \in {x \in Documents(config.url) :
                          Cardinality({e.id : e \in Range(x.artifacts)}) = Len(x.artifacts)}}

\* What a refresh leaves alone when it fails: the catalog rows without their
\* status and error.
Described(cats) == {[id |-> c.id, url |-> c.url, metadata |-> c.metadata] : c \in cats}

\* C15: re-indexing is atomic. In every state the artifact rows of a catalog are a
\* complete set, never part of a manifest or a mixture of two; while a refresh
\* waits for its document the rows are the old ones; and after a failed refresh
\* the artifact rows, the installation rows and the catalogs' metadata are those
\* from before the refresh.
C15_ReindexAtomic ==
    /\ \A config \in Configs : RowsOf(artifacts, config.id) \in CompleteSets(config)
    /\ (refresh.queue # <<>> /\ ~refresh.all) =>
           (artifacts = pre.artifacts /\ Described(catalogs) = Described(pre.catalogs))
    /\ (Finished("refreshCatalog") /\ ~last.success) =>
           /\ artifacts = pre.artifacts
           /\ installations = pre.installations
           /\ Described(catalogs) = Described(pre.catalogs)

\* C15 witness: a refresh failed at an insert part-way through the indexing of a
\* catalog that had artifact rows.
C15_Witness ==
    /\ Finished("refreshCatalog") /\ last.error = "constraint"
    /\ RowsOf(pre.artifacts, last.catalogId) # {}

\* The catalog rows with the id of the last operation.
CatalogNow == {c \in catalogs : c.id = last.catalogId}

\* The result of the last refresh a finished sweep made of catalog `id`, if any.
LastDone(id) ==
    LET at == {k \in DOMAIN refresh.done : refresh.done[k].id = id}
    IN {refresh.done[k] : k \in {j \in at : \A i \in at : i <= j}}

\* C16: a refreshCatalog that fails throws to its caller and leaves the catalog
\* with status error and the thrown message in its error field; one that
\* succeeds leaves status healthy and no error. The same holds of the catalog
\* rows after a sweep, for the last refresh the sweep made of each.
C16_RefreshFailureRecorded ==
    /\ Finished("refreshCatalog") =>
          /\ CatalogNow # {}
          /\ \A c \in CatalogNow :
                IF last.success
                THEN c.status = "healthy" /\ c.error = NoError /\ ~last.threw
                ELSE c.status = "error" /\ c.error = last.error /\ c.error # NoError /\ last.threw
    /\ Finished("refreshAll") =>
          \A c \in catalogs : \A d \in LastDone(c.id) :
             IF d.ok THEN c.status = "healthy" /\ c.error = NoError
             ELSE c.status = "error" /\ c.error # NoError

\* C16 witness: the refresh of a healthy catalog failed at the fetch.
C16_Witness ==
    /\ Finished("refreshCatalog") /\ ~last.success /\ last.error = "fetch"
    /\ \E c \in pre.catalogs : c.id = last.catalogId /\ c.status = "healthy"

\* The catalog ids of a list of configs or of finished refreshes, in order.
Ids(list) == [k \in DOMAIN list |-> list[k].id]

\* The ids of the enabled configs of the repositories setting as the sweep found it.
EnabledBefore == Ids(SelectSeq(pre.repositories, LAMBDA c : c.enabled))

\* C17: a sweep refreshes the enabled configs of the setting, each once and in
\* list order, and no disabled one; one catalog at a time; a refresh that fails
\* does not end the sweep; and refreshAll returns without throwing.
C17_SweepRefreshesEachEnabled ==
    /\ (refresh.all /\ last.op = "refreshAll") =>
          /\ Ids(refresh.done) \o Ids(refresh.queue) = EnabledBefore
          /\ Cardinality({c \in catalogs : c.status = "updating"}) <= 1
          /\ \A c \in catalogs :
                c.status = "updating" => (refresh.queue # <<>> /\ c.id = Head(refresh.queue).id)
    /\ Finished("refreshAll") =>
          (Ids(refresh.done) = EnabledBefore /\ last.success /\ ~last.threw)

\* C17 witness: a sweep over two catalogs has returned; the refresh of the first
\* failed and the second was refreshed all the same.
C17_Witness ==
    /\ Finished("refreshAll")
    /\ Len(refresh.done) = 2
    /\ ~refresh.done[1].ok
    /\ refresh.done[2].ok
    /\ refresh.done[1].id # refresh.done[2].id

\* C18: when addCatalog or refreshCatalog has fetched a document the validator
\* accepts, the artifact rows of the catalog are afterwards exactly the artifacts
\* the document lists.
C18_IndexedIsManifest ==
    ((Finished("addCatalog") \/ Finished("refreshCatalog")) /\ last.doc # "" /\ last.error # "invalid") =>
        \A config \in Configs : config.id = last.catalogId =>
           \E d \in Documents(config.url) :
              d.catalog = last.doc /\ RowsOf(artifacts, config.id) = Indexed(config.id, d)

\* C19: when the fetched document breaks a schema rule, addCatalog throws, no
\* catalog row and no artifact row is stored or changed, the repositories setting
\* is not extended and no catalog is reported as added.
C19_InvalidDocumentStoresNothing ==
    (Finished("addCatalog") /\ last.doc = "invalid") =>
        (NothingChanged /\ last.threw /\ ~last.success /\ ~last.reported)

\* C19 witness: addCatalog fetched a document with one valid and one invalid entry.
C19_Witness ==
    /\ Finished("addCatalog") /\ last.doc = "invalid" /\ last.error = "invalid"
    /\ \E d \in InvalidDocuments("u1") : \E e \in Range(d.artifacts) : valid(e)

\* C20: when the user declines the confirmation of a removeCatalog of a catalog
\* with installed artifacts, the catalog row, the artifact rows, the installation
\* rows, the installed files and the repositories setting are unchanged and no
\* removal is reported.
C20_DeclinedRemovalChangesNothing ==
    (Finished("removeCatalog") /\ last.error = "declined") =>
        (NothingChanged /\ ~last.reported)

\* The files, in order, of the supporting-file attempts of the last operation.
AttemptedFiles == [k \in DOMAIN last.trace.attempted |-> last.trace.attempted[k].file]

\* One of the supporting files of the last operation failed.
SupportingFailed == \E k \in DOMAIN last.trace.attempted : last.trace.attempted[k].outcome # "ok"

\* C21: when an install or an update wrote its main file and the download or the
\* write of a supporting file failed, every supporting file of the artifact was
\* still attempted in order, and the call wrote the installation record at the
\* path it returns and returned success (the artifact row being in the store).
C21_SupportingFailureNotFatal ==
    ((Finished("install") \/ Finished("update")) /\ last.trace.wrote /\ SupportingFailed
        /\ \E r \in pre.artifacts : r.catalogId = last.catalogId /\ r.id = last.artifactId) =>
        /\ last.success /\ ~last.threw
        /\ \E i \in RecordsNow : i.installedPath = last.path /\ last.path \in DOMAIN fs
        /\ \E artifact \in KnownArtifacts :
              /\ Key(artifact) = <<last.catalogId, last.artifactId>>
              /\ artifact.supportingFiles = AttemptedFiles

\* C21 witness: an install whose first supporting file failed to download and whose
\* second one was written, and an installation record was added.
C21_Witness ==
    /\ Finished("install") /\ last.success
    /\ Len(last.trace.attempted) = 2
    /\ last.trace.attempted[1].outcome = "download"
    /\ last.trace.attempted[2].outcome = "ok"
    /\ RecordsBefore = {} /\ RecordsNow # {}

\* The artifact a dependency id resolves to for an artifact of catalog catalogId:
\* the row of that catalog, else the top hit of the global search.
Lookup(catalogId, id) ==
    IF getArtifact(catalogId, id) # {} THEN getArtifact(catalogId, id) ELSE search(id)

\* The ids reachable from `ids` along dependencies, walking on from every
\* artifact an id resolves to that is not in `closed`.
RECURSIVE Reachable(_, _, _)
Reachable(catalogId, ids, closed) ==
    LET rows == UNION {Lookup(catalogId, i) : i \in ids}
        more == UNION {Range(r.dependencies) : r \in {q \in rows : Key(q) \notin closed}}
    IN IF more \subseteq ids THEN ids ELSE Reachable(catalogId, ids \cup more, closed)

\* The indexed artifact the last operation was about.
Subject == {r \in artifacts : r.catalogId = last.catalogId /\ r.id = last.artifactId}

\* The transitive dependency closure of the subject.
Closure == UNION {Reachable(r.catalogId, Range(r.dependencies), {}) : r \in Subject}

\* The part of it the walk reaches without passing through an artifact that
\* was installed when the operation began.
OpenClosure ==
    UNION {Reachable(r.catalogId, Range(r.dependencies),
                     {<<i.catalogId, i.artifactId>> : i \in pre.installations}) : r \in Subject}

Missing(ids) == {i \in ids : Lookup(last.catalogId, i) = {}}

FailedNaming(ids) ==
    /\ ~last.success
    /\ \E i \in ids : last.error = dependencyNotFound(i)
    /\ fs = pre.fs /\ dirs = pre.dirs /\ installations = pre.installations

\* C22 (as stated): when an id of the transitive dependency closure of a
\* not-yet-installed artifact matches no artifact, install fails with an error
\* naming a missing id and writes no file and adds no installation record.
C22_MissingDependencyFails ==
    (Finished("install") /\ ~WasInstalled /\ Missing(Closure) # {}) => FailedNaming(Missing(Closure))

\* C22 (amended): the same, for the ids the resolver reaches without passing
\* through an already-installed dependency, whose own dependencies it does not walk.
C22_MissingOpenDependencyFails ==
    (Finished("install") /\ ~WasInstalled /\ Missing(OpenClosure) # {}) =>
        FailedNaming(Missing(OpenClosure))

\* C22 witness: install of a, whose dependency b is not installed and needs x,
\* which is found nowhere; the error names x.
C22_Witness ==
    /\ Finished("install") /\ ~WasInstalled
    /\ last.artifactId = "a"
    /\ "x" \in Missing(OpenClosure) /\ "x" \notin UNION {Range(r.dependencies) : r \in Subject}
    /\ last.error = dependencyNotFound("x")

\* The store holds the cycle a -> b -> a within one catalog.
Cyclic ==
    \E ra, rb \in artifacts :
        /\ ra.catalogId = rb.catalogId
        /\ ra.id = "a" /\ ra.dependencies = <<"b">>
        /\ rb.id = "b" /\ rb.dependencies = <<"a">>

\* The ids of the list the resolver returned.
ResolvedIds == [k \in DOMAIN last.trace.deps |-> last.trace.deps[k].id]

\* C23: with a -> b and b -> a and nothing installed, resolving the dependencies
\* of a (or of b) returns, within the resolve calls the model follows, a list
\* that holds a and b each exactly once.
C23_CycleTerminates ==
    (Finished("resolveDependencies") /\ Cyclic /\ pre.installations = {}) =>
        /\ last.success /\ last.error # "unfinished"
        /\ ResolvedIds \in {<<"a", "b">>, <<"b", "a">>}

\* C23 witness: the dependencies of a were resolved on the cycle, to [a, b].
C23_Witness ==
    /\ Finished("resolveDependencies") /\ Cyclic /\ pre.installations = {}
    /\ last.artifactId = "a"
    /\ ResolvedIds = <<"a", "b">>

\* No indexed artifact is among its own transitive dependencies.
Acyclic == \A r \in artifacts : r.id \notin Reachable(r.catalogId, Range(r.dependencies), {})

InstalledBefore == {<<i.catalogId, i.artifactId>> : i \in pre.installations}

\* The not-yet-installed artifacts that artifact r needs, directly or through
\* other not-yet-installed artifacts, as the resolver of the subject looks them up.
Prerequisites(r) ==
    {q \in UNION {Lookup(last.catalogId, i) :
                     i \in Reachable(last.catalogId, Range(r.dependencies), InstalledBefore)} :
        Key(q) \notin InstalledBefore}

\* C30: on an acyclic dependency graph, every artifact of the list the resolver
\* returns comes after all of its own not-yet-installed dependencies, direct and
\* transitive.
C30_ValidInstallOrder ==
    (Finished("resolveDependencies") /\ Acyclic /\ last.success) =>
        \A k \in DOMAIN last.trace.deps :
            \A q \in Prerequisites(last.trace.deps[k]) :
                \E j \in 1..(k - 1) : last.trace.deps[j] = q

\* C30 witness: the diamond a -> b, c -> d with nothing installed resolves for a
\* to [d, b, c].
C30_Witness ==
    /\ Finished("resolveDependencies") /\ Acyclic /\ last.success
    /\ pre.installations = {}
    /\ last.artifactId = "a"
    /\ ResolvedIds = <<"d", "b", "c">>

\* Every installation record a step adds or rewrites names a path that, after the
\* step, holds the main content of the recorded artifact and version.
RecordedAfterWrite ==
    \A i \in installations' \ installations :
        /\ i.installedPath \in DOMAIN fs'
        /\ fs'[i.installedPath] = [catalogId |-> i.catalogId, id |-> i.artifactId, version |-> i.version]

\* The step in which an install or update returns to the view with a failure of
\* its main download, directory creation or file write (the step that ran its
\* performInstall) changes no installation record.
MainFailureRecordsNothing ==
    (last' # last /\ last'.op \in {"install", "update"}
                 /\ last'.error \in {"download", "mkdir", "write"}) =>
        (~last'.trace.wrote /\ installations' = installations)

\* C29: an installation record is written only by a step that has written the
\* main file at the record's installedPath, and a call whose main download,
\* directory creation or write fails adds or changes no record.
C29_RecordOnlyAfterMainFile == [][RecordedAfterWrite /\ MainFailureRecordsNothing]_vars

\* C29 witness: an install whose main file write failed; no record was added.
C29_Witness ==
    /\ Finished("install") /\ last.error = "write"
    /\ ~last.trace.wrote
    /\ RecordsNow = {}
    /\ last.path \notin DOMAIN fs

\* C25: from a store at any schema version 0 to 3, initializeSchema raises no
\* error and ends at schema version 3 with the foreign keys of installations and
\* the supporting_files column of artifacts; run on a version 3 store it changes
\* no table, column or row.
C25_InitializeSchemaIdempotent ==
    Finished("initializeSchema") =>
        /\ ~last.threw
        /\ schema = CurrentSchema
        /\ pre.schema.version = SchemaVersion =>
              (schema = pre.schema /\ catalogs = pre.catalogs /\ artifacts = pre.artifacts
                  /\ installations = pre.installations)

\* ---- source URLs ----
\* The branch a resolved URL is expected to name.
Branch == IF resolution.repo.branch = <<>> THEN "main" ELSE resolution.repo.branch[1]

\* The resolver answered for a URL of the family, with a branch or without one.
Resolved(family) ==
    /\ resolution.declared.family = family
    /\ resolution.resolved # ""
    /\ resolution.repo.branch # <<"">>

\* C26: for a repository type that is gitlab in any letter case, the resolved
\* URL is the declared URL without its /-/raw/... suffix and without one
\* trailing slash, then /-/raw/<branch>/<artifact path>, the branch being main
\* when absent; a declared URL with a /-/raw/... suffix resolves as the bare
\* repository URL does.
C26_GitLabUrl ==
    Resolved("gitlab") =>
        LET d == resolution.declared
            bare == Repository(resolution.repo.type, d.origin \o d.kept, resolution.repo.branch)
        IN /\ resolution.resolved =
                 d.origin \o d.kept \o "/-/raw/" \o Branch \o "/" \o resolution.path
           /\ startsWith(d.dropped, "/-/raw/") =>
                 resolution.resolved = resolveArtifactUrl(bare, resolution.path)

\* C26 witness: a GitLab URL that carries a raw suffix, declared with type
\* "GitLab" and no branch, resolved to the project's raw URL on main.
C26_Witness ==
    /\ resolution.repo = Repository("GitLab", "https://gitlab.com/org/repo/-/raw/develop/catalog.json", <<>>)
    /\ resolution.path = "a/b.md"
    /\ resolution.resolved = "https://gitlab.com/org/repo/-/raw/main/a/b.md"

\* C27: for repository type github the resolved URL is
\* https://raw.githubusercontent.com/<org>/<repo>/<branch>/<artifact path>, the
\* branch being main when absent, for a github.com repository URL, for one
\* with a /blob/... or /raw/... suffix, and for a raw.githubusercontent.com URL.
C27_GitHubRawUrl ==
    Resolved("github") =>
        resolution.resolved =
            "https://raw.githubusercontent.com" \o resolution.declared.kept
                \o "/" \o Branch \o "/" \o resolution.path

OfEnabledCatalog(i) ==
    \E k \in DOMAIN repositories : repositories[k].enabled /\ repositories[k].id = i.catalogId

\* The entries of the installed list for installation i.
ListedFor(i) == {k \in DOMAIN last.artifacts : last.artifacts[k].installation = i}

\* C24: the update check lists every installation of an enabled catalog exactly
\* once; it reports an update for it exactly when an artifact row with the same
\* (catalogId, artifactId) exists and its version differs from the installed
\* one, a lower catalog version included; an installation without an artifact
\* row is listed with a null artifact and no update.
C24_UpdateCheck ==
    Finished("getInstalled") =>
        \A i \in installations :
            OfEnabledCatalog(i) =>
                /\ Cardinality(ListedFor(i)) = 1
                /\ \A k \in ListedFor(i) :
                      LET item == last.artifacts[k]
                          rows == {r \in artifacts : r.catalogId = i.catalogId /\ r.id = i.artifactId}
                      IN /\ item.updateAvailable <=> \E r \in rows : r.version # i.version
                         /\ item.artifact = rows
                         /\ rows = {} => ~item.updateAvailable

\* C24 witness: the list holds an installation at version 1.1.0 whose artifact
\* row is at 1.0.0, of an enabled catalog, with an update reported.
C24_Witness ==
    /\ Finished("getInstalled")
    /\ \E k \in DOMAIN last.artifacts :
          LET item == last.artifacts[k]
          IN /\ OfEnabledCatalog(item.installation)
             /\ item.installation.version = "1.1.0"
             /\ item.updateAvailable
             /\ item.newVersion = <<"1.0.0">>

\* ---- the resolver's list ----
\* C31: the list the resolver returns holds no artifact twice, also when several
\* dependency ids are resolved by the global search, and no artifact that has an
\* installation record.
C31_ResolvedOnceAndNotInstalled ==
    (Finished("resolveDependencies") /\ last.success) =>
        LET deps == last.trace.deps
        IN /\ \A j, k \in DOMAIN deps : Key(deps[j]) = Key(deps[k]) => j = k
           /\ \A k \in DOMAIN deps : getInstallation(deps[k].catalogId, deps[k].id) = {}

\* C32: every dependency id is looked up first in the catalog of the artifact
\* that declares it, at every depth: when that catalog lists the id and the
\* artifact is not installed, it is that catalog's artifact the resolver returns
\* for the artifact being installed and for every artifact of the returned list.
C32_DependentsCatalogFirst ==
    (Finished("resolveDependencies") /\ last.success) =>
        \A r \in Subject \cup Range(last.trace.deps) :
            \A id \in Range(r.dependencies) :
                \A own \in getArtifact(r.catalogId, id) :
                    \/ getInstallation(own.catalogId, own.id) # {}
                    \/ own \in Range(last.trace.deps)
                    \/ own \in Subject

\* ---- calls side by side ----
\* The last call returned with nothing left in flight, having met a call of the
\* same operation on the same subject.
MetItsLike(op) ==
    /\ inflight = {}
    /\ last.op = op
    /\ DOMAIN last = DOMAIN Returned(Call(0, "", Named("", "", ""), "", NoPath, {}), "", TRUE, FALSE, "", FALSE)
    /\ \E m \in last.met : m.key = <<last.catalogId, last.artifactId>> /\ m.op = IF op = "refreshCatalog" THEN "refresh" ELSE op

\* C33: under any interleaving of install, update, uninstall and refresh calls,
\* two installs of one artifact that both passed the already-installed check
\* included, the installations table holds at most one record for each
\* (artifactId, catalogId).
C33_OneRecordPerArtifact ==
    \A i, j \in installations :
        (i.artifactId = j.artifactId /\ i.catalogId = j.catalogId) => i = j

\* C33 witness: two installs of a ran side by side, the second renamed its file
\* after the first had written; both files are there and one record is left.
C33_Witness ==
    /\ MetItsLike("install")
    /\ last.success
    /\ Cardinality(installations) = 1
    /\ Cardinality(DOMAIN fs) = 2
    /\ \A q \in DOMAIN fs : fs[q] = Content(Named("c1", "a", "1.0.0"))

\* ---- paths ----
\* C34: no two installation records share an installedPath: records of different
\* (artifactId, catalogId) point to different main files, whatever installs,
\* conflict answers, updates and uninstalls came before.
C34_DistinctInstalledPaths ==
    \A i, j \in installations : i.installedPath = j.installedPath => i = j

\* ---- overwriting ----
\* A file that existed when the last operation began is still there with the
\* content it had.
Kept(p) == p \in DOMAIN fs /\ fs[p] = pre.fs[p]

\* C35: an install whose conflict prompt was not answered with replace (no
\* conflict, keep, cancelled, rename) and that ran no dependency install leaves
\* every file that existed before the call as it was; the path computed from a
\* rename did not exist before, or the install did not write.
C35_OverwriteOnlyOnReplace ==
    (Finished("install") /\ last.trace.answer # "replace" /\ last.trace.ran = <<>>) =>
        /\ \A p \in DOMAIN pre.fs : Kept(p)
        /\ (last.trace.answer = "rename" /\ last.trace.wrote) =>
               \E p \in DOMAIN fs \ DOMAIN pre.fs : p.base \in NewNames

\* ---- reporting ----
\* C37: the views report an uninstall as done (uninstallResult with success:
\* true, the uninstalled message and the closed panel) only if the call removed
\* the installation record of that artifact.
C37_UninstallReportedOnlyWhenDone ==
    (Finished("uninstall") /\ last.reported) =>
        \E i \in pre.installations :
            /\ i.catalogId = last.catalogId
            /\ i.artifactId = last.artifactId
            /\ getInstallation(last.catalogId, last.artifactId) = {}

\* ---- failed installs ----
\* C36: an install that returns a non-success result, for a current or a stale
\* artifact value, has not written the artifact's main file and has added no
\* installation record for the artifact.
C36_FailedInstallLeavesNothing ==
    (Finished("install") /\ ~last.success) =>
        /\ ~last.trace.wrote
        /\ getInstallation(last.catalogId, last.artifactId) \subseteq pre.installations

\* ---- catalog status ----
\* A refreshCatalog call of the catalog is between its 'updating' UPDATE and its
\* transaction or catch block.
RefreshInFlight(catalogId) ==
    \E c \in inflight : c.op = "refresh" /\ c.artifact.catalogId = catalogId

\* C38: under overlapping refreshes, a catalog with no refresh in flight has
\* status healthy or error, never updating, and is healthy exactly when its
\* error column is null.
C38_StatusConsistent ==
    \A c \in catalogs :
        ~RefreshInFlight(c.id) =>
            /\ c.status \in {"healthy", "error"}
            /\ c.status = "healthy" <=> c.error = NoError

\* C38 witness: two refreshes of c1 overlapped, the one that returned last
\* failed after the other had succeeded; c1 is left in status error with the
\* failure message.
C38_Witness ==
    /\ MetItsLike("refreshCatalog")
    /\ last.threw
    /\ \E c \in catalogs : c.id = "c1" /\ c.status = "error" /\ c.metadata = "second"

\* ------------------------------------------------ supporting file paths
\* A path is the sequence of its segments: filePath.split('/') for an entry of
\* supportingFiles, the segments from the file system root on for a path on disk.
MaxParts == 4

\* The segments an entry of supportingFiles is drawn from (z.array(z.string())
\* accepts every string): '..', the empty segment of '//' or of a leading or
\* trailing '/', the artifact's directory with and without its dot, a directory
\* and a file name.
Parts == {"..", "", ".a", "a", "scripts", "x.py"}

SupportingFilePaths == UNION {[1 .. n -> Parts] : n \in 1 .. MaxParts}

\* parts.findIndex((part) => part === wanted), counted from 1; 0 when there is none
findIndex(parts, wanted) ==
    IF \E i \in DOMAIN parts : parts[i] = wanted
    THEN CHOOSE i \in DOMAIN parts : parts[i] = wanted /\ \A j \in 1 .. i - 1 : parts[j] # wanted
    ELSE 0

\* parts.slice(index + 1)
slice(parts, from) == SubSeq(parts, from, Len(parts))

\* extractRelativePath(fullPath, artifactId): the segments after the first
\* '.<artifactId>' segment, else after the first '<artifactId>' segment, else
\* the file name, else (empty file name) the whole path.
extractRelativePath(parts, artifactId) ==
    LET dotIndex == findIndex(parts, "." \o artifactId)
        artifactIndex == findIndex(parts, artifactId)
        filename == parts[Len(parts)]
    IN IF dotIndex >= 1 /\ dotIndex < Len(parts) THEN slice(parts, dotIndex + 1)
       ELSE IF artifactIndex >= 1 /\ artifactIndex < Len(parts) THEN slice(parts, artifactIndex + 1)
       ELSE IF filename # "" THEN <<filename>>
       ELSE parts

\* path.normalize of an absolute path: empty and '.' segments are dropped, '..'
\* drops the segment before it and is dropped itself at the root.
RECURSIVE normalize(_, _)
normalize(done, parts) ==
    IF parts = <<>> THEN done
    ELSE IF Head(parts) \in {"", "."} THEN normalize(done, Tail(parts))
    ELSE IF Head(parts) = ".."
    THEN normalize(IF done = <<>> THEN <<>> ELSE SubSeq(done, 1, Len(done) - 1), Tail(parts))
    ELSE normalize(Append(done, Head(parts)), Tail(parts))

\* path.join(dir, relativePath), dir absolute
join(dir, relativePath) == normalize(<<>>, dir \o relativePath)

\* path.join(workspaceRoot, '.github', `.${artifact.id}`)
supportingDirPath(artifactId) == join(<<"workspace">>, <<".github", "." \o artifactId>>)

\* path.join(workspaceRoot, installRoot, subdir, filename)
installPath(artifact) ==
    LET target == getInstallPath(artifact)
    IN join(<<"workspace">>, <<"installRoot", target.dir, target.base \o target.ext>>)

\* const targetPath = path.join(supportingDir, this.extractRelativePath(filePath, artifact.id))
supportingTargetPath(artifact, filePath) ==
    join(supportingDirPath(artifact.id), extractRelativePath(filePath, artifact.id))

\* The installs of a whose one supporting file is any of the paths above; nothing
\* has been written.
PathInit ==
    /\ catalogs = {}
    /\ artifacts = {}
    /\ installations = {}
    /\ fs = EmptyFs
    /\ dirs = {}
    /\ repositories = <<>>
    /\ refresh = NoRefresh
    /\ schema = CurrentSchema
    /\ \E filePath \in SupportingFilePaths :
          resolution = [artifact |-> WithSource(Entry("a", "prompt", "1.0.0", <<>>, <<filePath>>), "c1"),
                        written |-> {}]
    /\ stack = <<>>
    /\ pre = Snapshot
    /\ last = Result("none", "", "", TRUE, FALSE, NoError, NoPath)
    /\ ops = 0
    /\ inflight = {}

\* performInstall with every download and write succeeding: the main file, then
\* the supporting file, is written at its target path.
writeFiles ==
    /\ resolution.written = {}
    /\ resolution' =
          [resolution EXCEPT !.written =
              {[file |-> "main", path |-> installPath(resolution.artifact)],
               [file |-> "supporting",
                path |-> supportingTargetPath(resolution.artifact,
                                              resolution.artifact.supportingFiles[1])]}]
    /\ UNCHANGED <<catalogs, artifacts, installations, fs, dirs, repositories, refresh, stack,
                   pre, last, ops, schema, inflight>>

PathNext == writeFiles

PathSpec == PathInit /\ [][PathNext]_vars

\* The path lies below the directory.
Inside(path, dir) == Len(path) > Len(dir) /\ SubSeq(path, 1, Len(dir)) = dir

\* C39: every file an install writes lies inside its designated directory: the
\* main file below <workspace>/<installRoot>/<type directory>, each supporting
\* file below <workspace>/.github/.<artifactId>, for every supportingFiles entry.
C39_WrittenInsideDirectory ==
    \A w \in resolution.written :
        IF w.file = "main"
        THEN Inside(w.path, <<"workspace", "installRoot", resolution.artifact.type>>)
        ELSE Inside(w.path, supportingDirPath(resolution.artifact.id))

\* ---- migration ----
\* C40: initializeSchema run on a version 1 store, whose installations table has
\* no foreign keys, migrates the table without error and leaves it with the
\* foreign keys and exactly the rows it had.
C40_MigrationKeepsInstallations ==
    (Finished("initializeSchema") /\ pre.schema.version = 1 /\ pre.schema.installations = "plain") =>
        /\ last.error = NoError
        /\ schema.installations = "fk" /\ ~schema.installationsNew
        /\ installations = pre.installations

====
